---- MODULE Spec2Model ----
(***************************************************************************)
(* Session lifecycle of markindex (lib/auth/session.ts) together with the  *)
(* login and logout server actions that drive it (lib/actions/auth.ts).    *)
(*                                                                         *)
(* Time is counted in units of five days, so that the two durations of     *)
(* session.ts are THIRTY_DAYS_MS = 6 units and FIFTEEN_DAYS_MS = 3 units.  *)
(* One unit of the clock stands for any instant inside it: a Tick between  *)
(* two steps of a handler is the clock crossing a unit boundary while the  *)
(* handler runs.                                                           *)
(*                                                                         *)
(* The session table is shared by concurrent request handlers (Procs).     *)
(* Every await of the handlers is a separate step, and so is every read of *)
(* Date.now(): the store can change between two awaits, and the clock can  *)
(* move between any two steps.  Code between two awaits runs to its next   *)
(* await before another handler takes a step (it touches no shared state). *)
(*                                                                         *)
(* An absent value (null, undefined, no row) is the empty set and a        *)
(* present value v is {v}.  A handler keeps in data the row it read and in *)
(* result what validateSessionToken returned to it.                        *)
(*                                                                         *)
(* The tenant part (lib/actions/business.ts, lib/auth/business.ts and the  *)
(* portfolio page) runs on the tables business, user_business, portfolio   *)
(* and comment.  A handler of it first validates its session and then goes *)
(* through its awaits one step at a time; TenantSpec runs one request at a *)
(* time, TenantRaceSpec two assignments side by side.                      *)
(*                                                                         *)
(* The token-protected API of old/markindex (middleware, lib/auth.ts,      *)
(* lib/csrf.ts) has its own session table; ApiSpec runs requests through   *)
(* its middleware, and CsrfSpec applies the functions of csrf.ts to        *)
(* strings of UTF-16 code units.                                           *)
(***************************************************************************)
EXTENDS Integers, FiniteSets, Sequences

\* ---------------------------------------------------------------- bounds
MaxTime == 6
\* Sessions ever created when one handler runs at a time, and when two do.
MaxSessions == 2
RaceSessions == 1
MaxCallTicks == 1
\* Longest string handed to the comparison of csrf.ts, in UTF-16 code units.
MaxStrLen == 2
\* Rows the tenant tables grow to, all together.
MaxRows == 7

\* ------------------------------------------------------ program constants
THIRTY_DAYS_MS == 6
FIFTEEN_DAYS_MS == 3

\* Two accounts, and two request handlers running at the same time.
Users == {"u1", "u2"}
Procs == {"p1", "p2"}
\* Tokens are opaque: there are as many as there can be sessions.
Tokens == 1..MaxSessions
\* A string no session was ever issued for (a malformed or made-up cookie).
MalformedToken == 0
AllTokens == Tokens \cup {MalformedToken}

VARIABLES
    now,            \* Date.now(), in units of five days
    sessions,       \* the session table: a set of rows
    nextSessionId,  \* the serial behind session_id
    cookie,         \* the "session" cookie of the browser: {} or {[value, expires]}
    pc,             \* where each request handler stands
    lp,             \* each request handler's local variables
    gone,           \* history: the rows deleted so far, and by what
    lastSeen,       \* history: {} or {t}, when the browser last presented its
                    \* cookie in an unbroken chain of visits since login
    business,       \* the business table (tenants)
    userBusiness,   \* the user_business table (memberships)
    portfolio,      \* the portfolio table
    comment,        \* the comment table
    tl,             \* each handler's local variables in a tenant-scoped operation
    apiSessions,    \* the sessions table of the token-protected API (old/markindex)
    nextApiSessionId, \* the serial behind sessions.id of that API
    req,            \* the API request each handler is serving
    call,           \* the pure function under evaluation, with its arguments
    user,           \* the user table (accounts) that signup and login work on
    al              \* each handler's local variables in signup or login

sessionVars == <<now, sessions, nextSessionId, cookie, pc, lp, gone, lastSeen>>
tenantVars == <<business, userBusiness, portfolio, comment, tl>>
apiVars == <<apiSessions, nextApiSessionId, req>>
authVars == <<user, al>>
otherVars == <<tenantVars, apiVars, call, authVars>>
vars == <<sessionVars, otherVars>>

\* ------------------------------------------------------------ the store
SessionRow(id, tok, u, e) ==
    [sessionId |-> id, sessionToken |-> tok, userId |-> u, expiresAt |-> e]

InsertSessionNotUnique(S, row) == S \cup {row}
\* insert into session: session_token is unique, a conflicting insert fails.
InsertSession(S, row) ==
    IF \E r \in S : r.sessionToken = row.sessionToken THEN S ELSE S \cup {row}

\* select ... from session inner join user where session_token = token
SelectByToken(S, tok) == {r \in S : r.sessionToken = tok}

\* delete from session where session_id = id (validateSessionToken, expired)
DeleteExpiredForgotten(S, row) == S
DeleteExpired(S, row) == {r \in S : r.sessionId # row.sessionId}

\* update session set expires_at = e where session_id = id
UpdateExpiresAtUpsert(S, row, e) ==
    {r \in S : r.sessionId # row.sessionId} \cup {[row EXCEPT !.expiresAt = e]}
UpdateExpiresAtOfUser(S, row, e) ==
    {IF r.userId = row.userId THEN [r EXCEPT !.expiresAt = e] ELSE r : r \in S}
UpdateExpiresAt(S, row, e) ==
    {IF r.sessionId = row.sessionId THEN [r EXCEPT !.expiresAt = e] ELSE r : r \in S}

\* invalidateSession: delete from session where session_id = id
InvalidateSessionByUser(S, id) ==
    {r \in S : \A q \in S : q.sessionId = id => r.userId # q.userId}
InvalidateSession(S, id) == {r \in S : r.sessionId # id}

\* Whether the delete of invalidateSession throws: a delete that matches no
\* row resolves like any other.
InvalidateThrowsIfAbsent(S, id) == ~\E r \in S : r.sessionId = id
InvalidateThrows(S, id) == FALSE

\* ------------------------------------------------- session.ts, pure parts
\* new Date(Date.now() + THIRTY_DAYS_MS) of createSession
CreateExpiresAt(t) == t + THIRTY_DAYS_MS

\* new Date(Date.now() + THIRTY_DAYS_MS) of validateSessionToken
NewExpiresAtShort(t) == t + FIFTEEN_DAYS_MS
NewExpiresAt(t) == t + THIRTY_DAYS_MS

\* Date.now() >= sessionData.expiresAt.getTime()
IsExpired(t, e) == t >= e

\* Date.now() >= sessionData.expiresAt.getTime() - FIFTEEN_DAYS_MS
InSlidingWindowWide(t, e) == t >= e - THIRTY_DAYS_MS
InSlidingWindow(t, e) == t >= e - FIFTEEN_DAYS_MS

\* The three return values of validateSessionToken.
NoSessionResult == [session |-> {}, user |-> {}]
ExpiredResultTelling == [session |-> {}, user |-> {"expired"}]
ExpiredResult == [session |-> {}, user |-> {}]
ValidResult(row) == [session |-> {row}, user |-> {row.userId}]

\* The cookie a browser sends: it drops a cookie at its expires time.
CookieSent(c, t) == {k.value : k \in {k \in c : t < k.expires}}

\* setSessionCookie(token, expiresAt)
SetSessionCookie(tok, e) == {[value |-> tok, expires |-> e]}

\* Tokens of rows that were deleted.  generateSessionToken draws 160 random
\* bits: a draw may be let to coincide with a stored token (the unique
\* constraint then decides), but not with the token of a session that is
\* gone, an event no statement about "the same token" survives.
RetiredTokens == {g.sessionToken : g \in gone}
StoredTokens(S) == {r.sessionToken : r \in S}
FreshTokens(S) == Tokens \ (RetiredTokens \cup StoredTokens(S))
\* Fresh tokens are interchangeable: the least one stands for them all.
GeneratedTokens(S) ==
    StoredTokens(S) \cup {t \in FreshTokens(S) : \A x \in FreshTokens(S) : t <= x}

\* ------------------------------------------------- the tenant tables
\* An external identifier (randomUUID) is written as the serial number of
\* its row; UnknownUuid is an identifier no row carries.  A request names
\* the unknown identifier or that of one of the first two rows.
UnknownUuid == 0
BusinessUuids == {UnknownUuid, 1, 2}
PortfolioUuids == {UnknownUuid, 1, 2}

\* An insert of a transaction that has not committed: the table is as it
\* was for everyone else, and for good if the transaction is rolled back.
TxWriteThrough(table, rows) == table \cup rows
TxWrite(table, rows) == table

\* The next value of a serial column of a table no row is deleted from.
Serial(T) == Cardinality(T) + 1

\* The rows of the tenant tables, all together.
TenantRows ==
    Cardinality(business) + Cardinality(userBusiness) + Cardinality(portfolio)
      + Cardinality(comment)

BusinessRow(id) == [businessId |-> id, businessUuid |-> id]
UserBusinessRow(id, u, b, role) ==
    [userBusinessId |-> id, userId |-> u, businessId |-> b, role |-> role]
PortfolioRow(id, b, visibility) ==
    [portfolioId |-> id, portfolioUuid |-> id, businessId |-> b,
     visibility |-> visibility]
\* created_at defaults to the store's clock at the insert; the inserts of
\* requests that follow one another get timestamps that grow, written here
\* as the number of the insert.
CommentRow(id, port, u, at) ==
    [commentId |-> id, portfolioId |-> port, userId |-> u, createdAt |-> at]

\* The accounts of the tenant operations: those that log in here and one
\* that does not.  Each of them registered its email in lower case.
Accounts == Users \cup {"u3"}
UserEmail(u) == [who |-> u, caps |-> FALSE]
\* Emails a form can carry, in some spelling; "nobody" has no account.
EmailInputs ==
    {[who |-> "u1", caps |-> FALSE], [who |-> "u2", caps |-> TRUE],
     [who |-> "u3", caps |-> FALSE], [who |-> "nobody", caps |-> FALSE]}
\* z.string().email().min(1).toLowerCase()
ToLowerCase(email) == [email EXCEPT !.caps = FALSE]
\* select userId from user where email = $1 limit 1
SelectUserByEmail(U, email) == {r.userId : r \in {x \in U : x.email = email}}

\* getUserBusinessAccess: business inner join user_business where
\* business_uuid = $1 and user_id = $2 limit 1; {} when there is no row.
GetUserBusinessAccessLeftJoin(B, UB, u, uuid) ==
    {[businessId |-> b.businessId, role |-> "none"] :
        b \in {x \in B : x.businessUuid = uuid
                          /\ ~\E m \in UB : m.userId = u /\ m.businessId = x.businessId}}
      \cup {[businessId |-> m.businessId, role |-> m.role] :
              m \in {x \in UB : x.userId = u /\ \E b \in B :
                                  b.businessUuid = uuid /\ b.businessId = x.businessId}}
GetUserBusinessAccess(B, UB, u, uuid) ==
    {[businessId |-> m.businessId, role |-> m.role] :
        m \in {x \in UB : x.userId = u /\ \E b \in B :
                            b.businessUuid = uuid /\ b.businessId = x.businessId}}

\* assignUserToBusiness, step 5: select from user_business where user_id =
\* $1 and business_id = $2 limit 1
SelectMembershipAsMember(UB, u, b) ==
    {m \in UB : m.userId = u /\ m.businessId = b /\ m.role = "member"}
SelectMembership(UB, u, b) == {m \in UB : m.userId = u /\ m.businessId = b}

\* The role a membership is inserted with by assignUserToBusiness.
AssignedRoleAdmin == "admin"
AssignedRole == "member"

\* createPortfolio: visibility: "hidden"
CreatedVisibilityVisible == "visible"
CreatedVisibility == "hidden"

\* getBusinessPortfolios: select from portfolio where business_id = $1
GetBusinessPortfolios(P, b) == {r \in P : r.businessId = b}

\* togglePortfolioVisibility and addComment: select from portfolio where
\* portfolio_uuid = $1 and business_id = $2 limit 1
SelectPortfolioOfAnyBusiness(P, uuid, b) == {r \in P : r.portfolioUuid = uuid}
SelectPortfolioOfBusiness(P, uuid, b) ==
    {r \in P : r.portfolioUuid = uuid /\ r.businessId = b}

\* PortfolioPage: select from portfolio where portfolio_uuid = $1 limit 1
SelectPortfolio(P, uuid) == {r \in P : r.portfolioUuid = uuid}

\* currentPortfolio.visibility === "visible" ? "hidden" : "visible"
NewVisibility(visibility) == IF visibility = "visible" THEN "hidden" ELSE "visible"

\* update portfolio set visibility = $1 where portfolio_uuid = $2
UpdateVisibilityOfAll(P, uuid, visibility) ==
    {[r EXCEPT !.visibility = visibility] : r \in P}
UpdateVisibility(P, uuid, visibility) ==
    {IF r.portfolioUuid = uuid THEN [r EXCEPT !.visibility = visibility] ELSE r :
        r \in P}

\* getPortfolioComments: select from comment where portfolio_id = $1 order
\* by created_at desc
\* .orderBy(desc(comment.createdAt)): the latest row first.
RECURSIVE OrderByDesc(_)
OrderByDesc(rows) ==
    IF rows = {} THEN <<>>
    ELSE LET latest == CHOOSE r \in rows : \A x \in rows : x.createdAt <= r.createdAt
         IN  <<latest>> \o OrderByDesc(rows \ {latest})
GetPortfolioComments(K, port) == OrderByDesc({c \in K : c.portfolioId = port})

\* Operations that go on only for an admin of the business.
AdminOnlyNothing == {}
AdminOnly == {"assignUserToBusiness", "createPortfolio", "togglePortfolioVisibility"}

\* PortfolioPage and addComment: a caller who is not admin is stopped at a
\* portfolio that is not visible.
HiddenFromNobody(role, visibility) == FALSE
HiddenFrom(role, visibility) == role # "admin" /\ visibility # "visible"

\* The portfolios the business page lists for a role: all of them for an
\* admin, the visible ones for a member.
ListedFor(role, rows) ==
    IF role = "admin" THEN rows ELSE {r \in rows : r.visibility = "visible"}

\* What an operation returns or renders.
Outcome(out) == [out |-> out, shown |-> {}, comments |-> <<>>]
Pages == {"BusinessPage", "PortfolioPage"}
\* No session: { error: "Unauthorized" }, or redirect("/login") of a page.
Unauthorized(op) ==
    IF op \in Pages THEN Outcome("redirect /login") ELSE Outcome("Unauthorized")
\* No access, not admin, no such account, portfolio or a duplicate:
\* { error: "Something went wrong" }, or notFound() of a page.
Refused(op) ==
    IF op \in Pages THEN Outcome("notFound") ELSE Outcome("Something went wrong")
HiddenOutcomeTelling(op) ==
    IF op \in Pages THEN Outcome("forbidden") ELSE Outcome("Portfolio is hidden")
\* The portfolio is there but not for this role: the same notFound() and
\* the same { error: "Something went wrong" } over again.
HiddenOutcome(op) == Refused(op)
\* The input fails its schema.
InvalidInput(op) ==
    CASE op = "createBusiness" -> Outcome("Invalid business name")
      [] op = "createPortfolio" -> Outcome("Invalid portfolio title")
      [] op = "addComment" -> Outcome("Invalid comment")
      [] OTHER -> Outcome("Something went wrong")
Success == Outcome("success")

\* The arguments of one call: the operation, the identifiers of the URL or
\* the bound arguments, the email of the form, and whether the form passes
\* its schema.
NoEmail == [who |-> "nobody", caps |-> FALSE]
TenantCall(op, biz, port, email, input) ==
    [op |-> op, biz |-> biz, port |-> port, email |-> email, input |-> input]
TenantCalls ==
    {TenantCall("createBusiness", UnknownUuid, UnknownUuid, NoEmail, i) :
        i \in {"ok", "bad"}}
    \cup {TenantCall("assignUserToBusiness", b, UnknownUuid, e, "ok") :
            b \in BusinessUuids, e \in EmailInputs}
    \cup {TenantCall("assignUserToBusiness", b, UnknownUuid, NoEmail, "bad") :
            b \in BusinessUuids}
    \cup {TenantCall("createPortfolio", b, UnknownUuid, NoEmail, i) :
            b \in BusinessUuids, i \in {"ok", "bad"}}
    \cup {TenantCall("togglePortfolioVisibility", b, q, NoEmail, "ok") :
            b \in BusinessUuids, q \in PortfolioUuids}
    \cup {TenantCall("addComment", b, q, NoEmail, i) :
            b \in BusinessUuids, q \in PortfolioUuids, i \in {"ok", "bad"}}
    \cup {TenantCall("BusinessPage", b, UnknownUuid, NoEmail, "ok") :
            b \in BusinessUuids}
    \cup {TenantCall("PortfolioPage", b, q, NoEmail, "ok") :
            b \in BusinessUuids, q \in PortfolioUuids}

\* A handler's locals in a tenant-scoped operation: its call, what
\* getUserBusinessAccess gave it, the account and the portfolio it looked
\* up, the rows its transaction has written, and its outcome.
IdleTenantLocal ==
    [call |-> TenantCall("none", UnknownUuid, UnknownUuid, NoEmail, "ok"),
     access |-> {}, target |-> {}, pdata |-> {},
     tx |-> [business |-> {}, userBusiness |-> {}], result |-> Outcome("none")]

\* -------------------------------------------- password.ts, pure functions
\* Passwords a form can carry, and the salts hash() can draw.
Passwords == {"hunter22", "hunter23", "Hunter22", "correct horse"}
Salts == {"salt1", "salt2", "salt3"}

HASH_OPTIONS == [memoryCost |-> 19456, timeCost |-> 2, outputLen |-> 32, parallelism |-> 1]

\* The Argon2id digest of a password under a salt and parameters, taken as
\* free of collisions: the digest is written as what went into it.
Argon2id(password, salt, options) ==
    [of |-> password, salt |-> salt, options |-> options]

\* hash(password, options) of @node-rs/argon2: the encoded hash, which
\* carries the algorithm, the parameters, the salt drawn and the digest.
Argon2Hash(password, salt, options) ==
    [format |-> "$argon2id$", params |-> options, salt |-> salt,
     digest |-> Argon2id(password, salt, options)]

\* Values of the password_hash column that are no encoded hash: the empty
\* string, a hash cut short, a hash of another scheme.
EmptyHash ==
    [format |-> "", params |-> HASH_OPTIONS, salt |-> "",
     digest |-> Argon2id("", "", HASH_OPTIONS)]
TruncatedHash ==
    [format |-> "$argon2id$ cut short", params |-> HASH_OPTIONS, salt |-> "salt1",
     digest |-> Argon2id("", "", HASH_OPTIONS)]
BcryptHash ==
    [format |-> "$2b$", params |-> HASH_OPTIONS, salt |-> "salt1",
     digest |-> Argon2id("hunter22", "salt1", HASH_OPTIONS)]
MalformedHashes == {EmptyHash, TruncatedHash, BcryptHash}

\* verify(hashed, password, options) of @node-rs/argon2: it throws on what
\* is no encoded hash, and else computes the digest of the password under
\* the salt and parameters the hash carries and compares.
Argon2Verify(hashed, password, options) ==
    IF hashed.format # "$argon2id$"
      THEN [throws |-> TRUE, value |-> FALSE]
      ELSE [throws |-> FALSE,
            value |-> Argon2id(password, hashed.salt, hashed.params) = hashed.digest]

\* hashPassword(password), with the salt the library draws.
HashPassword(password, salt) == Argon2Hash(password, salt, HASH_OPTIONS)

\* verifyPassword(hash, password): try { return await verify(...) } catch
\* { return false }.  What it returns, and whether it throws.
VerifyPasswordUncaught(hash, password) ==
    LET v == Argon2Verify(hash, password, HASH_OPTIONS)
    IN  [throws |-> v.throws, value |-> v.value]
VerifyPasswordByRehash(hash, password) ==
    [throws |-> FALSE, value |-> HashPassword(password, "salt1") = hash]
VerifyPassword(hash, password) ==
    LET v == Argon2Verify(hash, password, HASH_OPTIONS)
    IN  [throws |-> FALSE, value |-> IF v.throws THEN FALSE ELSE v.value]

\* ----------------------------------------------------- the user table
UserRow(id, email, passwordHash) ==
    [userId |-> id, email |-> email, passwordHash |-> passwordHash]

\* select from user where email = $1 limit 1
SelectUser(U, email) == {r \in U : r.email = email}

\* insert into user: email is unique, a conflicting insert throws.
InsertUserThrowsNever(U, row) == FALSE
InsertUserThrows(U, row) == \E r \in U : r.email = row.email

\* Forms of signup and login: an email, a password, and whether the form
\* passes the schema of the action.
AuthEmails == {UserEmail("u1"), UserEmail("u2")}
AuthPasswords == {"hunter22", "hunter23"}
AuthOps == {"signup", "login"}
\* The salt hashPassword draws in a signup.
SignupSalts == {"salt1"}

\* { error: "Something went wrong" } of signup and login: of a form that
\* fails the schema, of the catch, and of the three tests.
AuthError == "Something went wrong"
SignupExistsError == "Something went wrong"
LoginNoUserErrorTelling == "No account with this email"
LoginNoUserError == "Something went wrong"
LoginPasswordError == "Something went wrong"

\* ------------------------------------------------ csrf.ts, pure functions
\* A JavaScript string is a sequence of UTF-16 code units.  The ones used
\* here: the letters a, b and e acute, a high and a low surrogate, and U+FFFD.
\* A header value holds one byte per code unit; a text column of the store
\* holds no surrogate on its own.
CodeUnits == {97, 98, 233, 55296, 56320, 65533}
Strings == UNION {[1..n -> CodeUnits] : n \in 0..MaxStrLen}
HeaderValues == {s \in Strings : \A i \in 1..Len(s) : s[i] < 256}
StoredTexts ==
    {s \in Strings : \A i \in 1..Len(s) : s[i] \notin 55296..57343} \ {<<>>}

IsHighSurrogate(c) == c \in 55296..56319
IsLowSurrogate(c) == c \in 56320..57343

\* The UTF-8 bytes of one code unit that is not half of a surrogate pair: a
\* surrogate on its own is encoded as U+FFFD.
Utf8Unit(c) ==
    IF c < 128 THEN <<c>>
    ELSE IF c < 2048 THEN <<192 + (c \div 64), 128 + (c % 64)>>
    ELSE IF IsHighSurrogate(c) \/ IsLowSurrogate(c) THEN <<239, 191, 189>>
    ELSE <<224 + (c \div 4096), 128 + ((c \div 64) % 64), 128 + (c % 64)>>

\* The UTF-8 bytes of the code point a surrogate pair stands for.
Utf8Pair(h, l) ==
    LET cp == 65536 + (h - 55296) * 1024 + (l - 56320)
    IN  <<240 + (cp \div 262144), 128 + ((cp \div 4096) % 64),
          128 + ((cp \div 64) % 64), 128 + (cp % 64)>>

\* Buffer.from(s): the UTF-8 encoding of the string.
RECURSIVE BufferFrom(_)
BufferFrom(s) ==
    IF Len(s) = 0 THEN <<>>
    ELSE IF Len(s) >= 2 /\ IsHighSurrogate(s[1]) /\ IsLowSurrogate(s[2])
      THEN Utf8Pair(s[1], s[2]) \o BufferFrom(SubSeq(s, 3, Len(s)))
    ELSE Utf8Unit(s[1]) \o BufferFrom(Tail(s))

\* Buffer.byteLength(s)
ByteLength(s) == Len(BufferFrom(s))

\* x ^ y and x | y on bytes.
RECURSIVE BitXor(_, _)
BitXor(x, y) ==
    IF x = 0 /\ y = 0 THEN 0
    ELSE ((((x % 2) + (y % 2)) % 2)) + 2 * BitXor(x \div 2, y \div 2)
RECURSIVE BitOr(_, _)
BitOr(x, y) ==
    IF x = 0 /\ y = 0 THEN 0
    ELSE (IF (x % 2) = 1 \/ (y % 2) = 1 THEN 1 ELSE 0) + 2 * BitOr(x \div 2, y \div 2)

\* buf[i % len] || 0: with len = 0 the index is NaN and the byte undefined.
ByteAt(buf, i) == IF Len(buf) = 0 THEN 0 ELSE buf[(i % Len(buf)) + 1]

\* for (let i = 0; i < maxLen; i++) result |= byteA ^ byteB, with the count
\* of the iterations it ran.
RECURSIVE CompareLoop(_, _, _, _, _)
CompareLoop(bufA, bufB, i, maxLen, acc) ==
    IF i < maxLen
      THEN CompareLoop(bufA, bufB, i + 1, maxLen,
                       [result |-> BitOr(acc.result,
                                         BitXor(ByteAt(bufA, i), ByteAt(bufB, i))),
                        iterations |-> acc.iterations + 1])
      ELSE acc

\* timingSafeEqual(a, b): what it returns and how often its loop ran.
TimingSafeEqual(a, b) ==
    LET aLen == ByteLength(a)
        bLen == ByteLength(b)
        maxLen == IF aLen >= bLen THEN aLen ELSE bLen
        start == [result |-> IF aLen = bLen THEN 0 ELSE 1, iterations |-> 0]
        end == CompareLoop(BufferFrom(a), BufferFrom(b), 0, maxLen, start)
    IN  [value |-> end.result = 0, iterations |-> end.iterations]

\* validateCsrfToken(request, session): header is {} without an X-CSRF-Token
\* header and {s} with one; if (!requestToken) also turns the empty string away.
ValidateCsrfTokenIfSent(header, csrf_token) ==
    IF header = {} THEN TRUE
    ELSE IF header = {<<>>} THEN FALSE
    ELSE \A h \in header : TimingSafeEqual(h, csrf_token).value
ValidateCsrfToken(header, csrf_token) ==
    IF header = {} \/ header = {<<>>} THEN FALSE
    ELSE \A h \in header : TimingSafeEqual(h, csrf_token).value

\* A method is written as its code units (an HTTP method is a token of
\* US-ASCII characters).
GET == <<71, 69, 84>>
HEAD == <<72, 69, 65, 68>>
OPTIONS == <<79, 80, 84, 73, 79, 78, 83>>
POST == <<80, 79, 83, 84>>
DELETE == <<68, 69, 76, 69, 84, 69>>
\* method.toUpperCase(): a to z become A to Z, every other US-ASCII
\* character stays.
ToUpperCase(m) ==
    [i \in 1..Len(m) |-> IF m[i] \in 97..122 THEN m[i] - 32 ELSE m[i]]
\* requiresCsrfProtection(method): method.toUpperCase() is not a safe method.
RequiresCsrfProtectionAsWritten(method) == method \notin {GET, HEAD, OPTIONS}
RequiresCsrfProtection(method) == ToUpperCase(method) \notin {GET, HEAD, OPTIONS}

\* Origins are written [scheme, host, port]; as header text, two of them are
\* the same string exactly when the three parts are the same.
AppOrigin == [scheme |-> "https", host |-> "app.example", port |-> ""]
EvilOrigin == [scheme |-> "https", host |-> "evil.example", port |-> ""]
OpaqueOrigin == [scheme |-> "null", host |-> "", port |-> ""]
\* The empty string as a header value.
EmptyOrigin == [scheme |-> "", host |-> "", port |-> ""]
\* Values of the Origin header: {} is no header.
OriginHeaders ==
    {{}, {EmptyOrigin}, {AppOrigin}, {EvilOrigin}, {OpaqueOrigin},
     {[AppOrigin EXCEPT !.host = "APP.EXAMPLE"]}, {[AppOrigin EXCEPT !.port = "443"]}}
\* Values of the Referer header: a URL, or text that new URL() rejects.
RefererUrls ==
    [scheme : {"https", "about"},
     host : {"app.example", "APP.EXAMPLE", "evil.example"},
     port : {"", "443"},
     path : {"/", "/app"}]
EmptyReferer == [scheme |-> "", host |-> "", port |-> "", path |-> ""]
NotAUrl == [scheme |-> "", host |-> "not a url", port |-> "", path |-> ""]
RefererHeaders == {{}, {EmptyReferer}, {NotAUrl}} \cup {{u} : u \in RefererUrls}
AllowedOriginLists == SUBSET {AppOrigin, EvilOrigin}

\* new URL(referer).origin: the host in lower case, the default port left
\* out; the origin of a URL that is not hierarchical is the string "null".
LowerHost(h) == IF h = "APP.EXAMPLE" THEN "app.example" ELSE h
UrlOrigin(u) ==
    IF u.scheme = "about" THEN OpaqueOrigin
    ELSE [scheme |-> u.scheme, host |-> LowerHost(u.host),
          port |-> IF u.scheme = "https" /\ u.port = "443" THEN "" ELSE u.port]

\* validateOrigin(request, allowedOrigins)
ValidateOrigin(origin, referer, allowedOrigins) ==
    IF origin # {} /\ origin # {EmptyOrigin}
      THEN \A o \in origin : o \in allowedOrigins
    ELSE IF referer # {} /\ referer # {EmptyReferer}
      THEN \A r \in referer : IF r = NotAUrl THEN FALSE
                              ELSE UrlOrigin(r) \in allowedOrigins
    ELSE TRUE

\* No function is under evaluation.
NoCall ==
    [fn |-> "none", a |-> <<>>, b |-> <<>>, header |-> {}, origin |-> {},
     referer |-> {}, allowedOrigins |-> {}, done |-> FALSE,
     out |-> [value |-> FALSE, iterations |-> 0]]

\* ------------------------------------- the token-protected API: its store
\* CSRF tokens the store can hold, and what a client can put in the header.
CsrfTokens == {<<97>>, <<98>>}
CsrfHeaders == {{}, {<<>>}, {<<97>>}, {<<98>>}}

\* createSession: insert into sessions ... returning *.  The expiry, a day
\* ahead, is "future" until the clock passes it.
ApiSessionRow(id, u, tok, csrf) ==
    [id |-> id, user_id |-> u, session_token |-> tok, csrf_token |-> csrf,
     expires_at |-> "future"]

\* getSession: select ... where session_token = $1 and expires_at > now()
GetSession(S, tok) == {r \in S : r.session_token = tok /\ r.expires_at = "future"}

\* destroySession: delete from sessions where session_token = $1
DestroySession(S, tok) == {r \in S : r.session_token # tok}

\* What the middleware makes of the request's cookies: no Cookie header, a
\* header without session_token, or one with it.
CookieHeaders ==
    {[present |-> FALSE, session_token |-> {}], [present |-> TRUE, session_token |-> {}]}
      \cup {[present |-> TRUE, session_token |-> {t}] : t \in AllTokens}

\* get, Head, options, post and GETS beside the methods in capitals.
Methods ==
    {GET, HEAD, OPTIONS, POST, DELETE,
     <<103, 101, 116>>, <<72, 101, 97, 100>>, <<111, 112, 116, 105, 111, 110, 115>>,
     <<112, 111, 115, 116>>, <<71, 69, 84, 83>>}
Paths == {"/api/items", "/api/auth/logout", "/dashboard"}
\* request.nextUrl.pathname.startsWith(...)
StartsWithApi(path) == path \in {"/api/items", "/api/auth/logout"}
IsAuthEndpoint(path) == path = "/api/auth/logout"
IsProtectedRoute(path) == path = "/dashboard"

\* No request is being served.
NoRequest ==
    [stage |-> "none", method |-> GET, path |-> "/dashboard",
     cookie |-> [present |-> FALSE, session_token |-> {}], csrf |-> {},
     session |-> {}, status |-> 0]

\* ---------------------------------------------------------------- locals
\* A handler's locals in signup or login: where it stands, its form, the
\* row it selected, the hash it computed, what verifyPassword gave it, the
\* session it created and what it returned.
IdleAuthLocal ==
    [at |-> "idle", op |-> "none", email |-> NoEmail, password |-> "",
     input |-> "ok", existingUser |-> {}, passwordHash |-> {}, verified |-> {},
     created |-> {}, result |-> "none"]

IdleLocal ==
    [kind |-> "page", via |-> FALSE, token |-> {}, data |-> {}, newExp |-> -1,
     age |-> 0, due |-> FALSE, path |-> "none", result |-> NoSessionResult]


SessionInit ==
    /\ now = 0
    /\ sessions = {}
    /\ nextSessionId = 1
    /\ cookie = {}
    /\ pc = [p \in Procs |-> "idle"]
    /\ lp = [p \in Procs |-> IdleLocal]
    /\ gone = {}
    /\ lastSeen = {}

TenantInit ==
    /\ business = {}
    /\ userBusiness = {}
    /\ portfolio = {}
    /\ comment = {}
    /\ tl = [p \in Procs |-> IdleTenantLocal]

ApiInit ==
    /\ apiSessions = {}
    /\ nextApiSessionId = 1
    /\ req = [p \in Procs |-> NoRequest]

\* No account is registered, and no handler is in signup or login.
AuthInit ==
    /\ user = {}
    /\ al = [p \in Procs |-> IdleAuthLocal]

\* The accounts of the tenant operations are registered.
Registered ==
    /\ user = {UserRow(u, UserEmail(u), HashPassword("hunter22", "salt1")) : u \in Accounts}
    /\ al = [p \in Procs |-> IdleAuthLocal]

Init == SessionInit /\ TenantInit /\ ApiInit /\ AuthInit /\ call = NoCall

\* ------------------------------------------------------- history helpers
Gone(removed, by) ==
    {[sessionId |-> r.sessionId, sessionToken |-> r.sessionToken,
      userId |-> r.userId, by |-> by] : r \in removed}

TheRow(p) == CHOOSE r \in lp[p].data : TRUE

\* Code that runs without an await: the tests of lines 67 and 75, the
\* computation of line 76, and the caller's use of the result.
InSync(p) == pc[p] \in {"expiry", "window", "compute", "done", "enter", "returned"}
NoSync == \A p \in Procs : ~InSync(p)

\* Where the caller goes on when validateSessionToken returns res.
AfterValidate(kind, res) ==
    IF kind = "page" THEN "done"
    ELSE IF kind = "tenant" THEN "enter"
    ELSE IF res.session # {} THEN "invalidate" ELSE "clear"

\* ------------------------------------------------------------- the clock
\* A handler runs for at most MaxCallTicks units of the clock.
Tick ==
    /\ now < MaxTime
    /\ \A p \in Procs : pc[p] # "idle" => lp[p].age < MaxCallTicks
    /\ now' = now + 1
    /\ lp' = [p \in Procs |->
                IF pc[p] = "idle" THEN lp[p] ELSE [lp[p] EXCEPT !.age = @ + 1]]
    /\ UNCHANGED <<sessions, nextSessionId, cookie, pc, gone, lastSeen, otherVars>>

\* ----------------------------------------------------------------- login
\* login, after the credentials were verified for account u: createSession
\* and setSessionCookie.  via: the login comes from the browser whose cookie
\* is modelled.  A failed insert throws, and login returns the generic error.
Login(u, tok, via, max) ==
    /\ NoSync
    /\ nextSessionId <= max
    /\ LET row == SessionRow(nextSessionId, tok, u, CreateExpiresAt(now))
       IN  /\ sessions' = InsertSession(sessions, row)
           /\ nextSessionId' = nextSessionId + 1
           /\ IF via /\ row \in sessions'
                THEN /\ cookie' = SetSessionCookie(tok, row.expiresAt)
                     /\ lastSeen' = {now}
                ELSE UNCHANGED <<cookie, lastSeen>>
    /\ UNCHANGED <<now, pc, lp, gone, otherVars>>

\* --------------------------------------------------- a request comes in
\* A page (getSessionToken, then validateSessionToken) or logout, up to the
\* select by token of validateSessionToken and its return for no row.  The
\* browser sends its cookie; any other client sends the token it likes.
Begin(p, kind, via, tok) ==
    /\ NoSync
    /\ pc[p] = "idle"
    /\ LET sent == IF via THEN CookieSent(cookie, now) ELSE {tok}
           due == \E t \in lastSeen : now - t < FIFTEEN_DAYS_MS
           rows == UNION {SelectByToken(sessions, t) : t \in sent}
           loc == [IdleLocal EXCEPT !.kind = kind, !.via = via, !.token = sent,
                                    !.due = via /\ kind = "page" /\ due]
       IN  /\ IF rows = {}
                THEN /\ lp' = [lp EXCEPT ![p] = [loc EXCEPT !.result = NoSessionResult,
                                                           !.path = "missing"]]
                     /\ pc' = [pc EXCEPT ![p] = AfterValidate(kind, NoSessionResult)]
                ELSE \E r \in rows :
                     /\ lp' = [lp EXCEPT ![p] = [loc EXCEPT !.data = {r}]]
                     /\ pc' = [pc EXCEPT ![p] = "expiry"]
           /\ lastSeen' = IF ~via THEN lastSeen
                          ELSE IF kind = "page" /\ due THEN {now} ELSE {}
    /\ UNCHANGED <<now, sessions, nextSessionId, cookie, gone, otherVars>>

\* -------------------------------------------------- validateSessionToken
\* if (Date.now() >= sessionData.expiresAt.getTime())
CheckExpired(p) ==
    /\ pc[p] = "expiry"
    /\ pc' = [pc EXCEPT ![p] =
                IF IsExpired(now, TheRow(p).expiresAt) THEN "delete" ELSE "window"]
    /\ UNCHANGED <<now, sessions, nextSessionId, cookie, lp, gone, lastSeen, otherVars>>

\* The delete of the expired session, and the return after it.
DeleteExpiredSession(p) ==
    /\ NoSync
    /\ pc[p] = "delete"
    /\ sessions' = DeleteExpired(sessions, TheRow(p))
    /\ gone' = gone \cup Gone(sessions \ sessions', "expired")
    /\ lp' = [lp EXCEPT ![p].result = ExpiredResult, ![p].path = "expired"]
    /\ pc' = [pc EXCEPT ![p] = AfterValidate(lp[p].kind, ExpiredResult)]
    /\ UNCHANGED <<now, nextSessionId, cookie, lastSeen, otherVars>>

\* if (Date.now() >= sessionData.expiresAt.getTime() - FIFTEEN_DAYS_MS),
\* and the return of an unexpired session outside the window.
CheckWindow(p) ==
    /\ pc[p] = "window"
    /\ IF InSlidingWindow(now, TheRow(p).expiresAt)
         THEN /\ pc' = [pc EXCEPT ![p] = "compute"]
              /\ lp' = lp
         ELSE /\ pc' = [pc EXCEPT ![p] =
                          AfterValidate(lp[p].kind, ValidResult(TheRow(p)))]
              /\ lp' = [lp EXCEPT ![p].result = ValidResult(TheRow(p)),
                                   ![p].path = "valid"]
    /\ UNCHANGED <<now, sessions, nextSessionId, cookie, gone, lastSeen, otherVars>>

\* const newExpiresAt = new Date(Date.now() + THIRTY_DAYS_MS)
ComputeExpiry(p) ==
    /\ pc[p] = "compute"
    /\ lp' = [lp EXCEPT ![p].newExp = NewExpiresAt(now)]
    /\ pc' = [pc EXCEPT ![p] = "update"]
    /\ UNCHANGED <<now, sessions, nextSessionId, cookie, gone, lastSeen, otherVars>>

\* The update of expires_at, sessionData.expiresAt = newExpiresAt, return.
UpdateExpiry(p) ==
    /\ NoSync
    /\ pc[p] = "update"
    /\ sessions' = UpdateExpiresAt(sessions, TheRow(p), lp[p].newExp)
    /\ LET row == [TheRow(p) EXCEPT !.expiresAt = lp[p].newExp]
       IN  /\ lp' = [lp EXCEPT ![p].result = ValidResult(row), ![p].path = "valid"]
           /\ pc' = [pc EXCEPT ![p] = AfterValidate(lp[p].kind, ValidResult(row))]
    /\ UNCHANGED <<now, nextSessionId, cookie, gone, lastSeen, otherVars>>

\* ------------------------------------------------------ after validation
\* The page renders, or redirects to /login when there is no user.
PageReturn(p) ==
    /\ pc[p] = "done"
    /\ pc' = [pc EXCEPT ![p] = "idle"]
    /\ lp' = [lp EXCEPT ![p] = IdleLocal]
    /\ UNCHANGED <<now, sessions, nextSessionId, cookie, gone, lastSeen, otherVars>>

\* logout: if (currentSession) await invalidateSession(currentSession.sessionId).
\* An error is caught: logout redirects without deleting the cookie.
LogoutInvalidate(p) ==
    /\ NoSync
    /\ pc[p] = "invalidate"
    /\ IF InvalidateThrows(sessions, TheRow(p).sessionId)
         THEN /\ pc' = [pc EXCEPT ![p] = "idle"]
              /\ lp' = [lp EXCEPT ![p] = IdleLocal]
              /\ UNCHANGED <<sessions, gone>>
         ELSE /\ sessions' = InvalidateSession(sessions, TheRow(p).sessionId)
              /\ gone' = gone \cup Gone(sessions \ sessions', "revoked")
              /\ pc' = [pc EXCEPT ![p] = "clear"]
              /\ lp' = lp
    /\ UNCHANGED <<now, nextSessionId, cookie, lastSeen, otherVars>>

\* logout: deleteSessionCookie and the redirect to /.
LogoutClearCookie(p) ==
    /\ NoSync
    /\ pc[p] = "clear"
    /\ cookie' = IF lp[p].via THEN {} ELSE cookie
    /\ pc' = [pc EXCEPT ![p] = "idle"]
    /\ lp' = [lp EXCEPT ![p] = IdleLocal]
    /\ UNCHANGED <<now, sessions, nextSessionId, gone, lastSeen, otherVars>>

Kinds == {"page", "logout"}

\* The steps of a handler that is running.
Step(p) ==
    \/ CheckExpired(p)
    \/ DeleteExpiredSession(p)
    \/ CheckWindow(p)
    \/ ComputeExpiry(p)
    \/ UpdateExpiry(p)
    \/ PageReturn(p)
    \/ LogoutInvalidate(p)
    \/ LogoutClearCookie(p)

\* One request at a time (handler p1), from clients that present whatever
\* token they hold, over a table of up to MaxSessions sessions.
Next ==
    \/ Tick
    \/ /\ pc["p1"] = "idle"
       /\ \E u \in Users, tok \in GeneratedTokens(sessions) :
             Login(u, tok, FALSE, MaxSessions)
    \/ \E kind \in Kinds, tok \in AllTokens : Begin("p1", kind, FALSE, tok)
    \/ Step("p1")

Spec == Init /\ [][Next]_vars

\* Concurrent handlers over the shared session table, for the sessions of
\* one account.
RaceNext ==
    \/ Tick
    \/ \E tok \in GeneratedTokens(sessions) : Login("u1", tok, FALSE, RaceSessions)
    \/ \E p \in Procs, kind \in Kinds, tok \in AllTokens : Begin(p, kind, FALSE, tok)
    \/ \E p \in Procs : Step(p)

RaceSpec == Init /\ [][RaceNext]_vars

\* One browser: it logs in, visits pages and logs out, one request at a
\* time, and sends the cookie that login set for as long as it keeps it.
BrowserNext ==
    \/ Tick
    \/ /\ pc["p1"] = "idle"
       /\ \E tok \in GeneratedTokens(sessions) : Login("u1", tok, TRUE, MaxSessions)
    \/ \E kind \in Kinds : Begin("p1", kind, TRUE, MalformedToken)
    \/ Step("p1")

BrowserSpec == Init /\ [][BrowserNext]_vars

\* ------------------------------------ tenant-scoped actions and pages
\* The account validateSessionToken returned to the handler: {} or {u}.
CurrentUserOrDefault(p) ==
    IF lp[p].result.user = {} THEN {"u1"} ELSE lp[p].result.user
CurrentUser(p) == lp[p].result.user
TheAccess(p) == CHOOSE a \in tl[p].access : TRUE
ThePortfolio(p) == CHOOSE r \in tl[p].pdata : TRUE

\* The handler returns with an outcome.
Return(p, out) ==
    /\ tl' = [tl EXCEPT ![p].result = out]
    /\ pc' = [pc EXCEPT ![p] = "returned"]

\* The handler goes on to its next await.
GoOn(p, to, local) ==
    /\ tl' = [tl EXCEPT ![p] = local]
    /\ pc' = [pc EXCEPT ![p] = to]

\* After validateSessionToken: the check of its result and of the form, up
\* to the next await.  The tables take no more rows than the bounds allow.
TenantEnter(p, c) ==
    /\ pc[p] = "enter"
    /\ c.op = "createBusiness" => TenantRows + 2 <= MaxRows
    /\ c.op \in {"assignUserToBusiness", "createPortfolio", "addComment"}
          => TenantRows < MaxRows
    /\ LET local == [IdleTenantLocal EXCEPT !.call = c]
       IN  IF CurrentUser(p) = {}
             THEN GoOn(p, "returned", [local EXCEPT !.result = Unauthorized(c.op)])
           ELSE IF c.input = "bad"
             THEN GoOn(p, "returned", [local EXCEPT !.result = InvalidInput(c.op)])
           ELSE IF c.op = "createBusiness" THEN GoOn(p, "transaction", local)
           ELSE GoOn(p, "access", local)
    /\ UNCHANGED <<now, sessions, nextSessionId, cookie, lp, gone, lastSeen,
                   business, userBusiness, portfolio, comment, apiVars, call, authVars>>

\* createBusiness, step 4: db.transaction.  tx.insert(business) returns the
\* created row; until the commit the row is the transaction's own.
AwaitTxBusiness(p) ==
    /\ NoSync
    /\ pc[p] = "transaction"
    /\ LET b == BusinessRow(Serial(business))
       IN  /\ business' = TxWrite(business, {b})
           /\ GoOn(p, "txMembership", [tl[p] EXCEPT !.tx.business = {b}])
    /\ UNCHANGED <<now, sessions, nextSessionId, cookie, lp, gone, lastSeen,
                   userBusiness, portfolio, comment, apiVars, call, authVars>>

\* tx.insert(userBusiness): the creator as admin of the created business.
AwaitTxMembership(p) ==
    /\ NoSync
    /\ pc[p] = "txMembership"
    /\ LET rows == {UserBusinessRow(Serial(userBusiness), u, b.businessId, "admin") :
                       u \in CurrentUser(p), b \in tl[p].tx.business}
       IN  /\ userBusiness' = TxWrite(userBusiness, rows)
           /\ GoOn(p, "txCommit", [tl[p] EXCEPT !.tx.userBusiness = rows])
    /\ UNCHANGED <<now, sessions, nextSessionId, cookie, lp, gone, lastSeen,
                   business, portfolio, comment, apiVars, call, authVars>>

\* The callback returns: the transaction commits both rows, and the action
\* redirects to the business page.
AwaitTxCommit(p) ==
    /\ NoSync
    /\ pc[p] = "txCommit"
    /\ business' = business \cup tl[p].tx.business
    /\ userBusiness' = userBusiness \cup tl[p].tx.userBusiness
    /\ Return(p, Outcome("redirect /app"))
    /\ UNCHANGED <<now, sessions, nextSessionId, cookie, lp, gone, lastSeen,
                   portfolio, comment, apiVars, call, authVars>>

\* A statement of the transaction throws, or the connection is lost: the
\* transaction is rolled back, and the catch of the action returns its error.
TxFails(p) ==
    /\ NoSync
    /\ pc[p] \in {"transaction", "txMembership", "txCommit"}
    /\ Return(p, Outcome("Failed to create business"))
    /\ UNCHANGED <<now, sessions, nextSessionId, cookie, lp, gone, lastSeen,
                   business, userBusiness, portfolio, comment, apiVars, call, authVars>>

\* The insert or update of an action throws (the store is not reachable,
\* the statement is refused): nothing is written, and the catch of the
\* action returns the generic error.
StatementFails(p) ==
    /\ NoSync
    /\ pc[p] \in {"insertMember", "insertPortfolio", "updateVisibility", "insertComment"}
    /\ Return(p, Outcome("Something went wrong"))
    /\ UNCHANGED <<now, sessions, nextSessionId, cookie, lp, gone, lastSeen,
                   business, userBusiness, portfolio, comment, apiVars, call, authVars>>

\* await getUserBusinessAccess(userId, businessUuid), the test of its result
\* and, where the operation is for admins, of the role.
AwaitAccess(p) ==
    /\ NoSync
    /\ pc[p] = "access"
    /\ LET op == tl[p].call.op
           access == UNION {GetUserBusinessAccess(business, userBusiness, u, tl[p].call.biz) :
                               u \in CurrentUser(p)}
       IN  IF access = {} THEN Return(p, Refused(op))
           ELSE \E a \in access :
                  IF op \in AdminOnly /\ a.role # "admin" THEN Return(p, Refused(op))
                  ELSE GoOn(p, CASE op = "assignUserToBusiness" -> "target"
                                 [] op = "createPortfolio" -> "insertPortfolio"
                                 [] op = "BusinessPage" -> "listing"
                                 [] OTHER -> "portfolio",
                            [tl[p] EXCEPT !.access = {a}])
    /\ UNCHANGED <<now, sessions, nextSessionId, cookie, lp, gone, lastSeen,
                   business, userBusiness, portfolio, comment, apiVars, call, authVars>>

\* assignUserToBusiness, step 4: look up the account by its email.
AwaitTargetUser(p) ==
    /\ NoSync
    /\ pc[p] = "target"
    /\ LET found == SelectUserByEmail(user, ToLowerCase(tl[p].call.email))
       IN  IF found = {} THEN Return(p, Refused(tl[p].call.op))
           ELSE \E u \in found : GoOn(p, "existing", [tl[p] EXCEPT !.target = {u}])
    /\ UNCHANGED <<now, sessions, nextSessionId, cookie, lp, gone, lastSeen,
                   business, userBusiness, portfolio, comment, apiVars, call, authVars>>

\* assignUserToBusiness, step 5: is the account already assigned?
AwaitExisting(p) ==
    /\ NoSync
    /\ pc[p] = "existing"
    /\ LET existing == UNION {SelectMembership(userBusiness, u, TheAccess(p).businessId) :
                                 u \in tl[p].target}
       IN  IF existing # {} THEN Return(p, Refused(tl[p].call.op))
           ELSE GoOn(p, "insertMember", tl[p])
    /\ UNCHANGED <<now, sessions, nextSessionId, cookie, lp, gone, lastSeen,
                   business, userBusiness, portfolio, comment, apiVars, call, authVars>>

\* assignUserToBusiness, step 6: insert the membership.
AwaitInsertMembership(p) ==
    /\ NoSync
    /\ pc[p] = "insertMember"
    /\ userBusiness' = userBusiness \cup
          {UserBusinessRow(Serial(userBusiness), u, TheAccess(p).businessId, AssignedRole) :
              u \in tl[p].target}
    /\ Return(p, Success)
    /\ UNCHANGED <<now, sessions, nextSessionId, cookie, lp, gone, lastSeen,
                   business, portfolio, comment, apiVars, call, authVars>>

\* createPortfolio, step 5: insert the portfolio, hidden.
AwaitInsertPortfolio(p) ==
    /\ NoSync
    /\ pc[p] = "insertPortfolio"
    /\ portfolio' = portfolio \cup
          {PortfolioRow(Serial(portfolio), TheAccess(p).businessId, CreatedVisibility)}
    /\ Return(p, Success)
    /\ UNCHANGED <<now, sessions, nextSessionId, cookie, lp, gone, lastSeen,
                   business, userBusiness, comment, apiVars, call, authVars>>

\* The select of the portfolio and the tests that follow it.
\* togglePortfolioVisibility, step 3; addComment, steps 4 and 5; PortfolioPage,
\* steps 3 to 5.
AwaitPortfolio(p) ==
    /\ NoSync
    /\ pc[p] = "portfolio"
    /\ LET op == tl[p].call.op
           a == TheAccess(p)
           found == IF op = "PortfolioPage"
                      THEN SelectPortfolio(portfolio, tl[p].call.port)
                      ELSE SelectPortfolioOfBusiness(portfolio, tl[p].call.port,
                                                     a.businessId)
       IN  IF found = {} THEN Return(p, Refused(op))
           ELSE \E r \in found :
                  IF op = "PortfolioPage" /\ r.businessId # a.businessId
                    THEN Return(p, Refused(op))
                  ELSE IF op # "togglePortfolioVisibility"
                          /\ HiddenFrom(a.role, r.visibility)
                    THEN Return(p, HiddenOutcome(op))
                  ELSE GoOn(p, CASE op = "togglePortfolioVisibility" -> "updateVisibility"
                                 [] op = "addComment" -> "insertComment"
                                 [] OTHER -> "comments",
                            [tl[p] EXCEPT !.pdata = {r}])
    /\ UNCHANGED <<now, sessions, nextSessionId, cookie, lp, gone, lastSeen,
                   business, userBusiness, portfolio, comment, apiVars, call, authVars>>

\* togglePortfolioVisibility, step 4: write the other visibility than the
\* one that was read.
AwaitUpdateVisibility(p) ==
    /\ NoSync
    /\ pc[p] = "updateVisibility"
    /\ portfolio' = UpdateVisibility(portfolio, tl[p].call.port,
                                     NewVisibility(ThePortfolio(p).visibility))
    /\ Return(p, Success)
    /\ UNCHANGED <<now, sessions, nextSessionId, cookie, lp, gone, lastSeen,
                   business, userBusiness, comment, apiVars, call, authVars>>

\* addComment, step 6: insert the comment.
AwaitInsertComment(p) ==
    /\ NoSync
    /\ pc[p] = "insertComment"
    /\ comment' = comment \cup
          {CommentRow(Serial(comment), ThePortfolio(p).portfolioId, u, Serial(comment)) :
              u \in CurrentUser(p)}
    /\ Return(p, Success)
    /\ UNCHANGED <<now, sessions, nextSessionId, cookie, lp, gone, lastSeen,
                   business, userBusiness, portfolio, apiVars, call, authVars>>

\* PortfolioPage, step 6: fetch the comments and render.
AwaitComments(p) ==
    /\ NoSync
    /\ pc[p] = "comments"
    /\ Return(p, [out |-> "rendered", shown |-> tl[p].pdata,
                  comments |-> GetPortfolioComments(comment, ThePortfolio(p).portfolioId)])
    /\ UNCHANGED <<now, sessions, nextSessionId, cookie, lp, gone, lastSeen,
                   business, userBusiness, portfolio, comment, apiVars, call, authVars>>

\* The business page's list of portfolios: getBusinessPortfolios, and of
\* its rows those the caller's role may see.
AwaitListing(p) ==
    /\ NoSync
    /\ pc[p] = "listing"
    /\ Return(p, [out |-> "rendered",
                  shown |-> ListedFor(TheAccess(p).role,
                                      GetBusinessPortfolios(portfolio,
                                                            TheAccess(p).businessId)),
                  comments |-> <<>>])
    /\ UNCHANGED <<now, sessions, nextSessionId, cookie, lp, gone, lastSeen,
                   business, userBusiness, portfolio, comment, apiVars, call, authVars>>

\* The outcome is handed to the client.
TenantReturn(p) ==
    /\ pc[p] = "returned"
    /\ pc' = [pc EXCEPT ![p] = "idle"]
    /\ lp' = [lp EXCEPT ![p] = IdleLocal]
    /\ tl' = [tl EXCEPT ![p] = IdleTenantLocal]
    /\ UNCHANGED <<now, sessions, nextSessionId, cookie, gone, lastSeen,
                   business, userBusiness, portfolio, comment, apiVars, call, authVars>>

\* Both accounts are logged in: login ran once for each at time 0.
LoggedIn ==
    /\ now = 0
    /\ sessions = {SessionRow(1, 1, "u1", CreateExpiresAt(0)),
                   SessionRow(2, 2, "u2", CreateExpiresAt(0))}
    /\ nextSessionId = 3
    /\ cookie = {}
    /\ pc = [p \in Procs |-> "idle"]
    /\ lp = [p \in Procs |-> IdleLocal]
    /\ gone = {}
    /\ lastSeen = {}

\* The steps of a handler in a tenant-scoped operation, validateSessionToken
\* of a session far from its expiry included.
TenantStep(p) ==
    \/ CheckExpired(p)
    \/ CheckWindow(p)
    \/ \E c \in TenantCalls : TenantEnter(p, c)
    \/ AwaitTxBusiness(p)
    \/ AwaitTxMembership(p)
    \/ AwaitTxCommit(p)
    \/ TxFails(p)
    \/ AwaitAccess(p)
    \/ AwaitTargetUser(p)
    \/ AwaitExisting(p)
    \/ AwaitInsertMembership(p)
    \/ AwaitInsertPortfolio(p)
    \/ AwaitPortfolio(p)
    \/ AwaitUpdateVisibility(p)
    \/ AwaitInsertComment(p)
    \/ AwaitComments(p)
    \/ AwaitListing(p)
    \/ TenantReturn(p)

\* One request at a time, from either account or from nobody.
TenantNext ==
    \/ \E tok \in AllTokens : Begin("p1", "tenant", FALSE, tok)
    \/ TenantStep("p1")

\* Both accounts logged in and no tenant yet.
TenantStart == LoggedIn /\ TenantInit /\ ApiInit /\ Registered /\ call = NoCall

TenantSpec == TenantStart /\ [][TenantNext]_vars

\* The same requests against a store whose statements may fail.
TenantFailNext ==
    \/ TenantNext
    \/ StatementFails("p1")

TenantFailSpec == TenantStart /\ [][TenantFailNext]_vars

\* ------------------------------------ two assignments at the same time
\* A tenant exists: u1 created it and is its admin.
TenantCreated ==
    /\ business = {BusinessRow(1)}
    /\ userBusiness = {UserBusinessRow(1, "u1", 1, "admin")}
    /\ portfolio = {}
    /\ comment = {}
    /\ tl = [p \in Procs |-> IdleTenantLocal]

\* assignUserToBusiness for that tenant, with a form that passes its schema.
RaceCalls ==
    {TenantCall("assignUserToBusiness", 1, UnknownUuid, e, "ok") : e \in EmailInputs}

\* Two requests, each an assignUserToBusiness; their steps interleave at
\* the awaits.
TenantRaceNext ==
    \E p \in Procs :
        \/ \E tok \in AllTokens : Begin(p, "tenant", FALSE, tok)
        \/ CheckExpired(p)
        \/ CheckWindow(p)
        \/ \E c \in RaceCalls : TenantEnter(p, c)
        \/ AwaitAccess(p)
        \/ AwaitTargetUser(p)
        \/ AwaitExisting(p)
        \/ AwaitInsertMembership(p)
        \/ TenantReturn(p)

\* Both accounts logged in and the tenant of u1 created.
TenantRaceStart == LoggedIn /\ TenantCreated /\ ApiInit /\ Registered /\ call = NoCall

TenantRaceSpec == TenantRaceStart /\ [][TenantRaceNext]_vars

\* ------------------------- a comment and toggles at the same time
\* A tenant with its admin u1, a member u2 and one visible portfolio.
PortfolioShared ==
    /\ business = {BusinessRow(1)}
    /\ userBusiness = {UserBusinessRow(1, "u1", 1, "admin"),
                       UserBusinessRow(2, "u2", 1, "member")}
    /\ portfolio = {PortfolioRow(1, 1, "visible")}
    /\ comment = {}
    /\ tl = [p \in Procs |-> IdleTenantLocal]

\* togglePortfolioVisibility and addComment for that portfolio.
PortfolioRaceCalls ==
    {TenantCall("togglePortfolioVisibility", 1, 1, NoEmail, "ok"),
     TenantCall("addComment", 1, 1, NoEmail, "ok")}

\* Two requests of either account; their steps interleave at the awaits.
PortfolioRaceNext ==
    \E p \in Procs :
        \/ \E tok \in AllTokens : Begin(p, "tenant", FALSE, tok)
        \/ CheckExpired(p)
        \/ CheckWindow(p)
        \/ \E c \in PortfolioRaceCalls : TenantEnter(p, c)
        \/ AwaitAccess(p)
        \/ AwaitPortfolio(p)
        \/ AwaitUpdateVisibility(p)
        \/ AwaitInsertComment(p)
        \/ TenantReturn(p)

PortfolioRaceStart == LoggedIn /\ PortfolioShared /\ ApiInit /\ Registered /\ call = NoCall

PortfolioRaceSpec == PortfolioRaceStart /\ [][PortfolioRaceNext]_vars

\* --------------------------------------------------- signup and login
\* A handler returns from signup or login with a value, or goes on to its
\* next await.
AuthReturns(p, local, value) ==
    al' = [al EXCEPT ![p] = [local EXCEPT !.at = "returned", !.result = value]]
AuthGoesOn(p, local, to) ==
    al' = [al EXCEPT ![p] = [local EXCEPT !.at = to]]

\* The action is called with a form: safeParse, and the return on a form
\* that fails the schema.
AuthBegin(p, op, email, password, input) ==
    /\ al[p].at = "idle"
    /\ pc[p] = "idle"
    /\ LET local == [IdleAuthLocal EXCEPT !.op = op, !.email = email,
                                          !.password = password, !.input = input]
       IN  IF input = "bad" THEN AuthReturns(p, local, AuthError)
           ELSE AuthGoesOn(p, local, "select")
    /\ UNCHANGED <<sessionVars, tenantVars, apiVars, call, user>>

\* signup: check if user already exists.
SignupSelect(p) ==
    /\ al[p].at = "select" /\ al[p].op = "signup"
    /\ IF SelectUser(user, al[p].email) # {}
         THEN AuthReturns(p, al[p], SignupExistsError)
         ELSE AuthGoesOn(p, al[p], "hash")
    /\ UNCHANGED <<sessionVars, tenantVars, apiVars, call, user>>

\* signup: await hashPassword(password).
SignupHash(p) ==
    /\ al[p].at = "hash"
    /\ \E salt \in SignupSalts :
          AuthGoesOn(p, [al[p] EXCEPT !.passwordHash =
                                         {HashPassword(al[p].password, salt)}],
                     "insert")
    /\ UNCHANGED <<sessionVars, tenantVars, apiVars, call, user>>

\* signup: insert the account and redirect to the login page; an insert
\* that throws is caught and the generic error returned.
SignupInsert(p) ==
    /\ al[p].at = "insert"
    /\ \E h \in al[p].passwordHash :
          LET row == UserRow(Serial(user), al[p].email, h)
          IN  IF InsertUserThrows(user, row)
                THEN /\ AuthReturns(p, al[p], AuthError)
                     /\ user' = user
                ELSE /\ AuthReturns(p, al[p], "redirect /login")
                     /\ user' = user \cup {row}
    /\ UNCHANGED <<sessionVars, tenantVars, apiVars, call>>

\* login: find user by email.
LoginSelect(p) ==
    /\ al[p].at = "select" /\ al[p].op = "login"
    /\ LET found == SelectUser(user, al[p].email)
       IN  IF found = {} THEN AuthReturns(p, al[p], LoginNoUserError)
           ELSE \E r \in found :
                  AuthGoesOn(p, [al[p] EXCEPT !.existingUser = {r}], "verify")
    /\ UNCHANGED <<sessionVars, tenantVars, apiVars, call, user>>

\* login: await verifyPassword(existingUser.passwordHash, password); what
\* it throws is caught by login and the generic error returned.
LoginVerify(p) ==
    /\ al[p].at = "verify"
    /\ \E r \in al[p].existingUser :
          LET v == VerifyPassword(r.passwordHash, al[p].password)
              local == [al[p] EXCEPT !.verified = {v}]
          IN  IF v.throws THEN AuthReturns(p, local, AuthError)
              ELSE IF ~v.value THEN AuthReturns(p, local, LoginPasswordError)
              ELSE AuthGoesOn(p, local, "session")
    /\ UNCHANGED <<sessionVars, tenantVars, apiVars, call, user>>

\* login: await createSession(existingUser.userId); an insert that throws
\* is caught and the generic error returned.
LoginCreateSession(p) ==
    /\ al[p].at = "session"
    /\ nextSessionId <= MaxSessions
    /\ \E r \in al[p].existingUser : \E tok \in GeneratedTokens(sessions) :
          LET row == SessionRow(nextSessionId, tok, r.userId, CreateExpiresAt(now))
          IN  /\ sessions' = InsertSession(sessions, row)
              /\ nextSessionId' = nextSessionId + 1
              /\ IF row \in sessions'
                   THEN AuthGoesOn(p, [al[p] EXCEPT !.created = {row}], "cookie")
                   ELSE AuthReturns(p, al[p], AuthError)
    /\ UNCHANGED <<now, cookie, pc, lp, gone, lastSeen, tenantVars, apiVars, call, user>>

\* login: await setSessionCookie(token, expiresAt), and the redirect.
LoginSetCookie(p) ==
    /\ al[p].at = "cookie"
    /\ \E row \in al[p].created :
          cookie' = SetSessionCookie(row.sessionToken, row.expiresAt)
    /\ AuthReturns(p, al[p], "redirect /app/business-manager")
    /\ UNCHANGED <<now, sessions, nextSessionId, pc, lp, gone, lastSeen,
                   tenantVars, apiVars, call, user>>

\* The value is handed to the client.
AuthDone(p) ==
    /\ al[p].at = "returned"
    /\ al' = [al EXCEPT ![p] = IdleAuthLocal]
    /\ UNCHANGED <<sessionVars, tenantVars, apiVars, call, user>>

\* The user table at the start: empty, or holding one account whose
\* password_hash is no encoded hash (a row no signup wrote).
AuthStart ==
    /\ SessionInit /\ TenantInit /\ ApiInit /\ call = NoCall
    /\ al = [p \in Procs |-> IdleAuthLocal]
    /\ user \in {{}} \cup {{UserRow(1, UserEmail("u1"), h)} : h \in MalformedHashes}

\* Signups and logins of two handlers, interleaved at their awaits.
AuthNext ==
    \E p \in Procs :
        \/ \E op \in AuthOps : \E email \in AuthEmails : \E password \in AuthPasswords :
             AuthBegin(p, op, email, password, "ok")
        \/ \E op \in AuthOps : AuthBegin(p, op, NoEmail, "", "bad")
        \/ SignupSelect(p)
        \/ SignupHash(p)
        \/ SignupInsert(p)
        \/ LoginSelect(p)
        \/ LoginVerify(p)
        \/ LoginCreateSession(p)
        \/ LoginSetCookie(p)
        \/ AuthDone(p)

AuthSpec == AuthStart /\ [][AuthNext]_vars

\* ------------------------------- an account signs up and is assigned
\* The emails typed into the signup form and into the assignment form: one
\* address, in lower case and with capitals.
AssignEmails == {[who |-> "u2", caps |-> FALSE], [who |-> "u2", caps |-> TRUE]}

\* Account 1 has signed up with a lower-case email, has logged in and has
\* created tenant 1.
AssignStart ==
    /\ now = 0
    /\ sessions = {SessionRow(1, 1, 1, CreateExpiresAt(0))}
    /\ nextSessionId = 2
    /\ cookie = {}
    /\ pc = [p \in Procs |-> "idle"]
    /\ lp = [p \in Procs |-> IdleLocal]
    /\ gone = {}
    /\ lastSeen = {}
    /\ business = {BusinessRow(1)}
    /\ userBusiness = {UserBusinessRow(1, 1, 1, "admin")}
    /\ portfolio = {}
    /\ comment = {}
    /\ tl = [p \in Procs |-> IdleTenantLocal]
    /\ ApiInit
    /\ call = NoCall
    /\ user = {UserRow(1, UserEmail("u1"), HashPassword("hunter22", "salt1"))}
    /\ al = [p \in Procs |-> IdleAuthLocal]

\* Signups of new accounts, and assignUserToBusiness requests of the
\* admin (or of a client without a session) for tenant 1.
AssignNext ==
    \/ \E email \in AssignEmails : AuthBegin("p2", "signup", email, "hunter22", "ok")
    \/ SignupSelect("p2")
    \/ SignupHash("p2")
    \/ SignupInsert("p2")
    \/ AuthDone("p2")
    \/ \E tok \in AllTokens : Begin("p1", "tenant", FALSE, tok)
    \/ CheckExpired("p1")
    \/ CheckWindow("p1")
    \/ \E email \in AssignEmails :
          TenantEnter("p1", TenantCall("assignUserToBusiness", 1, UnknownUuid, email, "ok"))
    \/ AwaitAccess("p1")
    \/ AwaitTargetUser("p1")
    \/ AwaitExisting("p1")
    \/ AwaitInsertMembership("p1")
    \/ TenantReturn("p1")

AssignSpec == AssignStart /\ [][AssignNext]_vars

\* ------------------------------------------ the token-protected API: steps
\* The login route, once the password is verified: createSession and the
\* session_token cookie; the CSRF token goes to the client in the body.
ApiLogin(u, tok, csrf) ==
    /\ nextApiSessionId <= MaxSessions
    /\ apiSessions' = apiSessions \cup {ApiSessionRow(nextApiSessionId, u, tok, csrf)}
    /\ nextApiSessionId' = nextApiSessionId + 1
    /\ UNCHANGED <<sessionVars, tenantVars, req, call, authVars>>

\* The clock passes the expiry of a session.
ApiExpire ==
    /\ \E r \in apiSessions :
          /\ r.expires_at = "future"
          /\ apiSessions' = (apiSessions \ {r}) \cup {[r EXCEPT !.expires_at = "past"]}
    /\ UNCHANGED <<sessionVars, tenantVars, nextApiSessionId, req, call, authVars>>

\* middleware, up to its first await: the response headers, and for a
\* mutating /api request the cookie tests; for a protected page the same
\* tests, with a redirect to /login.
ApiRequest(p, method, path, cookieHeader, header) ==
    /\ req[p].stage = "none"
    /\ LET r == [NoRequest EXCEPT !.method = method, !.path = path,
                                  !.cookie = cookieHeader, !.csrf = header]
           guarded == StartsWithApi(path) /\ RequiresCsrfProtection(method)
           noToken == ~cookieHeader.present \/ cookieHeader.session_token = {}
       IN  req' = [req EXCEPT ![p] =
                IF guarded
                  THEN IF noToken THEN [r EXCEPT !.stage = "rejected", !.status = 401]
                       ELSE [r EXCEPT !.stage = "getSession"]
                ELSE IF IsProtectedRoute(path)
                  THEN IF noToken THEN [r EXCEPT !.stage = "rejected", !.status = 307]
                       ELSE [r EXCEPT !.stage = "pageSession"]
                ELSE [r EXCEPT !.stage = "handler"]]
    /\ UNCHANGED <<sessionVars, tenantVars, apiSessions, nextApiSessionId, call, authVars>>

\* middleware: await getSession(sessionToken), the 401 without a session,
\* and the CSRF test that auth endpoints are excepted from.
ApiGetSession(p) ==
    /\ req[p].stage = "getSession"
    /\ LET found == UNION {GetSession(apiSessions, t) : t \in req[p].cookie.session_token}
       IN  IF found = {}
             THEN req' = [req EXCEPT ![p].stage = "rejected", ![p].status = 401]
             ELSE \E row \in found :
                    req' = [req EXCEPT ![p] =
                       IF ~IsAuthEndpoint(req[p].path)
                            /\ ~ValidateCsrfToken(req[p].csrf, row.csrf_token)
                         THEN [@ EXCEPT !.stage = "rejected", !.status = 403,
                                        !.session = {row}]
                         ELSE [@ EXCEPT !.stage = "handler", !.session = {row}]]
    /\ UNCHANGED <<sessionVars, tenantVars, apiSessions, nextApiSessionId, call, authVars>>

\* middleware, protected pages: await getSession(sessionToken).
ApiPageSession(p) ==
    /\ req[p].stage = "pageSession"
    /\ LET found == UNION {GetSession(apiSessions, t) : t \in req[p].cookie.session_token}
       IN  IF found = {}
             THEN req' = [req EXCEPT ![p].stage = "rejected", ![p].status = 307]
             ELSE \E row \in found :
                    req' = [req EXCEPT ![p].stage = "handler", ![p].session = {row}]
    /\ UNCHANGED <<sessionVars, tenantVars, apiSessions, nextApiSessionId, call, authVars>>

\* The route handler the middleware let the request through to.  POST
\* /api/auth/logout destroys the session of the cookie's token.
ApiHandler(p) ==
    /\ req[p].stage = "handler"
    /\ LET toks == req[p].cookie.session_token
       IN  apiSessions' =
             IF req[p].path = "/api/auth/logout" /\ ToUpperCase(req[p].method) = POST
                  /\ toks # {}
               THEN DestroySession(apiSessions, CHOOSE t \in toks : TRUE)
               ELSE apiSessions
    /\ req' = [req EXCEPT ![p].stage = "responded", ![p].status = 200]
    /\ UNCHANGED <<sessionVars, tenantVars, nextApiSessionId, call, authVars>>

\* The response is sent.
ApiRespond(p) ==
    /\ req[p].stage \in {"rejected", "responded"}
    /\ req' = [req EXCEPT ![p] = NoRequest]
    /\ UNCHANGED <<sessionVars, tenantVars, apiSessions, nextApiSessionId, call, authVars>>

\* One request at a time against up to MaxSessions API sessions.
ApiNext ==
    \/ \E u \in Users, csrf \in CsrfTokens : ApiLogin(u, nextApiSessionId, csrf)
    \/ ApiExpire
    \/ \E method \in Methods, path \in Paths, c \in CookieHeaders, h \in CsrfHeaders :
          ApiRequest("p1", method, path, c, h)
    \/ ApiGetSession("p1")
    \/ ApiPageSession("p1")
    \/ ApiHandler("p1")
    \/ ApiRespond("p1")

ApiSpec == Init /\ [][ApiNext]_vars

\* --------------------------------------- csrf.ts, one call of a function
TimingSafeEqualCalls ==
    {[NoCall EXCEPT !.fn = "timingSafeEqual", !.a = a, !.b = b] : a, b \in Strings}
ValidateCsrfTokenCalls ==
    {[NoCall EXCEPT !.fn = "validateCsrfToken", !.header = h, !.b = t] :
        h \in {{}} \cup {{v} : v \in HeaderValues}, t \in StoredTexts}
ValidateOriginCalls ==
    {[NoCall EXCEPT !.fn = "validateOrigin", !.origin = o, !.referer = r,
                    !.allowedOrigins = l] :
        o \in OriginHeaders, r \in RefererHeaders, l \in AllowedOriginLists}

CsrfInit ==
    /\ SessionInit /\ TenantInit /\ ApiInit /\ AuthInit
    /\ call \in TimingSafeEqualCalls \cup ValidateCsrfTokenCalls \cup ValidateOriginCalls

RunTimingSafeEqual ==
    /\ call.fn = "timingSafeEqual" /\ ~call.done
    /\ call' = [call EXCEPT !.done = TRUE, !.out = TimingSafeEqual(call.a, call.b)]
    /\ UNCHANGED <<sessionVars, tenantVars, apiVars, authVars>>

RunValidateCsrfToken ==
    /\ call.fn = "validateCsrfToken" /\ ~call.done
    /\ call' = [call EXCEPT !.done = TRUE,
                            !.out.value = ValidateCsrfToken(call.header, call.b)]
    /\ UNCHANGED <<sessionVars, tenantVars, apiVars, authVars>>

RunValidateOrigin ==
    /\ call.fn = "validateOrigin" /\ ~call.done
    /\ call' = [call EXCEPT !.done = TRUE,
                            !.out.value = ValidateOrigin(call.origin, call.referer,
                                                         call.allowedOrigins)]
    /\ UNCHANGED <<sessionVars, tenantVars, apiVars, authVars>>

CsrfNext == RunTimingSafeEqual \/ RunValidateCsrfToken \/ RunValidateOrigin

CsrfSpec == CsrfInit /\ [][CsrfNext]_vars

\* ------------------------------------ password.ts, one call of a function
\* verifyPassword(hashPassword(p), q), and verifyPassword on a stored value
\* that is no encoded hash.
HashThenVerifyCalls ==
    {[fn |-> "hashThenVerify", password |-> pw, salt |-> st, hash |-> {},
      other |-> q, done |-> FALSE, out |-> [throws |-> FALSE, value |-> FALSE]] :
        pw \in Passwords, st \in Salts, q \in Passwords}
VerifyPasswordCalls ==
    {[fn |-> "verifyPassword", password |-> "", salt |-> "", hash |-> {h},
      other |-> q, done |-> FALSE, out |-> [throws |-> FALSE, value |-> FALSE]] :
        h \in MalformedHashes, q \in Passwords}

PasswordInit ==
    /\ SessionInit /\ TenantInit /\ ApiInit /\ AuthInit
    /\ call \in HashThenVerifyCalls \cup VerifyPasswordCalls

RunHashThenVerify ==
    /\ call.fn = "hashThenVerify" /\ ~call.done
    /\ LET h == HashPassword(call.password, call.salt)
       IN  call' = [call EXCEPT !.done = TRUE, !.hash = {h},
                                !.out = VerifyPassword(h, call.other)]
    /\ UNCHANGED <<sessionVars, tenantVars, apiVars, authVars>>

RunVerifyPassword ==
    /\ call.fn = "verifyPassword" /\ ~call.done
    /\ call' = [call EXCEPT !.done = TRUE,
                            !.out = VerifyPassword(CHOOSE h \in call.hash : TRUE,
                                                   call.other)]
    /\ UNCHANGED <<sessionVars, tenantVars, apiVars, authVars>>

PasswordNext == RunHashThenVerify \/ RunVerifyPassword

PasswordSpec == PasswordInit /\ [][PasswordNext]_vars


\* ================================================================ claims
\* Handler p takes its step out of the place "from".
Leaves(p, from) == pc[p] = from /\ pc'[p] # from
Unauthenticated == [session |-> {}, user |-> {}]
Stored(S, id) == {r \in S : r.sessionId = id}

\* C1: validateSessionToken on a session whose expiry is at or before the
\* clock deletes the row and returns the unauthenticated result, and from
\* then on the row never comes back and every validateSessionToken that
\* starts with the same token returns the unauthenticated result.
C1_ExpiredStaysDead ==
    /\ [][\A p \in Procs :
            /\ Leaves(p, "expiry") /\ now >= TheRow(p).expiresAt
                  => pc'[p] = "delete"
            /\ Leaves(p, "delete")
                  => /\ Stored(sessions', TheRow(p).sessionId) = {}
                     /\ lp'[p].result = Unauthenticated
            /\ Leaves(p, "idle")
                 /\ (\E g \in gone : g.by = "expired" /\ lp'[p].token = {g.sessionToken})
                  => /\ lp'[p].result = Unauthenticated
                     /\ lp'[p].path = "missing"
                     /\ pc'[p] \in {"done", "clear"}]_vars
    /\ [](\A g \in gone : g.by = "expired" =>
            \A r \in sessions : /\ r.sessionId # g.sessionId
                                /\ r.sessionToken # g.sessionToken)

\* A validation that began after the session was deleted as expired.
C1_Witness ==
    \E p \in Procs, g \in gone :
        /\ g.by = "expired"
        /\ pc[p] = "done"
        /\ lp[p].token = {g.sessionToken}
        /\ lp[p].path = "missing"

\* C2: for an unexpired session, validateSessionToken at a clock reading
\* before expiry - 15 days writes nothing and returns the owner; at a clock
\* reading from expiry - 15 days on it stores exactly that reading plus 30
\* days and returns the owner.  (The clock does not move during the call.)
C2_SlidingWindow ==
    [][\A p \in Procs :
         LET e == TheRow(p).expiresAt
             owner == {r.userId : r \in Stored(sessions, TheRow(p).sessionId)}
         IN  /\ Leaves(p, "window") /\ now < e - FIFTEEN_DAYS_MS
                  => /\ sessions' = sessions
                     /\ lp'[p].path = "valid"
                     /\ lp'[p].result.user = owner
                     /\ \A r \in lp'[p].result.session : r.expiresAt = e
             /\ Leaves(p, "window") /\ now >= e - FIFTEEN_DAYS_MS /\ now < e
                  => pc'[p] = "compute"
             /\ Leaves(p, "update") /\ lp[p].age = 0
                  => /\ e - FIFTEEN_DAYS_MS <= now /\ now < e
                     /\ sessions' = (sessions \ {TheRow(p)}) \cup
                                    {[TheRow(p) EXCEPT !.expiresAt = now + THIRTY_DAYS_MS]}
                     /\ lp'[p].path = "valid"
                     /\ lp'[p].result.user = owner
                     /\ \A r \in lp'[p].result.session :
                            r.expiresAt = now + THIRTY_DAYS_MS]_vars

\* A session validated 10 days before its expiry, extended to now + 30 days.
C2_Witness ==
    \E p \in Procs :
        /\ pc[p] = "done"
        /\ lp[p].path = "valid"
        /\ lp[p].age = 0
        /\ TheRow(p).expiresAt = now + 2
        /\ [TheRow(p) EXCEPT !.expiresAt = now + THIRTY_DAYS_MS] \in sessions

\* A session validated 20 days before its expiry, left as it was.
C2_WitnessOutside ==
    \E p \in Procs :
        /\ pc[p] = "done"
        /\ lp[p].path = "valid"
        /\ lp[p].age = 0
        /\ TheRow(p).expiresAt = now + 4
        /\ TheRow(p) \in sessions

\* C3 (as claimed): the extension write takes effect only if the row still
\* holds the expiry the call read and that expiry has not passed.
C3_WriteHasPrecondition ==
    [][\A p \in Procs :
         Leaves(p, "update")
           /\ ~(TheRow(p) \in sessions /\ now < TheRow(p).expiresAt)
         => sessions' = sessions]_vars

\* C4 (as claimed): whatever the interleaving of validateSessionToken calls
\* that began while the session was unexpired, none of them deletes the
\* session while its stored expiry is ahead, no write stores an expiry
\* earlier than the one its call read, no stored expiry is later than the
\* clock plus 30 days, and no call returns an account for a session whose
\* stored expiry has passed.
C4_LostUpdateOnlyShortens ==
    /\ [](\A r \in sessions : r.expiresAt <= now + THIRTY_DAYS_MS)
    /\ [][\A p \in Procs :
            /\ Leaves(p, "delete") /\ now - lp[p].age < TheRow(p).expiresAt
                 /\ (\A q \in Procs : lp[q].kind = "page") =>
                  \A r \in Stored(sessions, TheRow(p).sessionId) :
                      now >= r.expiresAt
            /\ Leaves(p, "update") =>
                  \A r \in Stored(sessions', TheRow(p).sessionId) :
                      r.expiresAt >= TheRow(p).expiresAt
            /\ pc[p] # pc'[p] /\ lp'[p].path = "valid" /\ lp[p].path # "valid" =>
                  \A r \in Stored(sessions', TheRow(p).sessionId) :
                      now < r.expiresAt]_vars

\* C5: session rows have distinct tokens and ids; invalidateSession removes
\* the row of its session id and no other row; a validation that succeeds
\* returns the owner of the row that carries the presented token.
C5_IndependentRevocation ==
    /\ [](\A r1, r2 \in sessions :
            r1.sessionToken = r2.sessionToken \/ r1.sessionId = r2.sessionId
            => r1 = r2)
    /\ [](\A p \in Procs : lp[p].path = "valid" =>
            /\ lp[p].token = {TheRow(p).sessionToken}
            /\ lp[p].result.user = {TheRow(p).userId})
    /\ [][\A p \in Procs :
            Leaves(p, "invalidate") =>
               sessions' = sessions \ Stored(sessions, TheRow(p).sessionId)]_vars

\* Of two sessions of one account the later one was revoked, and the
\* earlier one's token then validated to that account.
C5_Witness ==
    \E p \in Procs, g \in gone :
        /\ g.by = "revoked"
        /\ pc[p] = "done"
        /\ lp[p].path = "valid"
        /\ TheRow(p).sessionId < g.sessionId
        /\ TheRow(p).sessionToken # g.sessionToken
        /\ lp[p].result.user = {g.userId}

\* C6: invalidateSession for a session id without a row changes no row and
\* raises no error (logout goes on to delete the cookie), and doing it twice
\* leaves the table as doing it once.
C6_RevokeIdempotent ==
    /\ [](\A id \in 0..nextSessionId :
            LET once == InvalidateSession(sessions, id)
            IN  /\ InvalidateSession(once, id) = once
                /\ Stored(once, id) = {}
                /\ Stored(sessions, id) = {} => once = sessions)
    /\ [][\A p \in Procs :
            Leaves(p, "invalidate") =>
               /\ pc'[p] = "clear"
               /\ Stored(sessions', TheRow(p).sessionId) = {}
               /\ Stored(sessions, TheRow(p).sessionId) = {} => sessions' = sessions]_vars

\* Two logouts validated the same session and both ran invalidateSession:
\* the second found no row.
C6_Witness ==
    \E p, q \in Procs :
        /\ p # q
        /\ pc[p] = "clear" /\ pc[q] = "clear"
        /\ lp[p].path = "valid" /\ lp[q].path = "valid"
        /\ TheRow(p).sessionId = TheRow(q).sessionId

\* C7: validateSessionToken returns the same value for a token that matches
\* no session (unknown or malformed) and for the token of an expired session.
C7_UniformFailure ==
    \A p, q \in Procs :
        lp[p].path \in {"missing", "expired"} /\ lp[q].path \in {"missing", "expired"}
        => /\ lp[p].result = lp[q].result
           /\ lp[p].result = NoSessionResult

\* One handler failed on an expired session, another on an unknown token.
C7_Witness ==
    \E p, q \in Procs : lp[p].path = "expired" /\ lp[q].path = "missing"

\* C8: a revoked session's row never comes back, a validateSessionToken
\* that starts with its token returns the unauthenticated result, and the
\* extension write of a call that read the row before the revocation
\* changes nothing.
C8_RevokedIsTerminal ==
    /\ [](\A g \in gone : g.by = "revoked" =>
            \A r \in sessions : /\ r.sessionId # g.sessionId
                                /\ r.sessionToken # g.sessionToken)
    /\ [][\A p \in Procs :
            /\ Leaves(p, "idle")
                 /\ (\E g \in gone : g.by = "revoked" /\ lp'[p].token = {g.sessionToken})
                  => /\ lp'[p].result = Unauthenticated
                     /\ pc'[p] \in {"done", "clear"}
            /\ Leaves(p, "update")
                 /\ (\E g \in gone : g.by = "revoked" /\ g.sessionId = TheRow(p).sessionId)
                  => sessions' = sessions]_vars

\* A page's extension write ran after another handler's logout had revoked
\* the session.
C8_Witness ==
    \E p \in Procs, g \in gone :
        /\ g.by = "revoked"
        /\ pc[p] = "done"
        /\ lp[p].path = "valid"
        /\ lp[p].newExp # -1
        /\ g.sessionId = TheRow(p).sessionId

\* C9: an expiry written by createSession is the clock plus 30 days; an
\* expiry written by the extension is the clock reading taken for it (line
\* 76) plus 30 days; both are strictly ahead of the clock when the row is
\* written.  A call returns an account only after its test of line 67 found
\* the clock strictly before the expiry it read.
C9_ExpiryInFuture ==
    [][/\ \A r \in sessions' \ sessions :
            /\ r.expiresAt > now
            /\ \/ Stored(sessions, r.sessionId) = {} /\ r.expiresAt = now + THIRTY_DAYS_MS
               \/ \E p \in Procs : /\ Leaves(p, "update")
                                   /\ r.sessionId = TheRow(p).sessionId
                                   /\ r.expiresAt = lp[p].newExp
       /\ \A p \in Procs :
            /\ Leaves(p, "compute") => lp'[p].newExp = now + THIRTY_DAYS_MS
            /\ pc'[p] = "window" /\ pc[p] # "window"
                  => pc[p] = "expiry" /\ now < TheRow(p).expiresAt
            /\ pc'[p] = "compute" /\ pc[p] # "compute" => pc[p] = "window"
            /\ pc'[p] = "update" /\ pc[p] # "update" => pc[p] = "compute"
            /\ lp'[p].path = "valid" /\ lp[p].path # "valid"
                  => pc[p] \in {"window", "update"}]_vars

\* An extension was written one tick after its expiry was computed.
C9_Witness ==
    \E p \in Procs :
        /\ pc[p] = "done"
        /\ lp[p].path = "valid"
        /\ lp[p].newExp = now - 1 + THIRTY_DAYS_MS
        /\ \E r \in sessions : r.sessionId = TheRow(p).sessionId
                               /\ r.expiresAt = lp[p].newExp

\* C10 (as claimed): a page request of the browser that comes less than 15
\* days after its login or its previous authenticated page request, with no
\* logout in between, is authenticated.
C10_ActiveStaysLoggedIn ==
    \A p \in Procs : pc[p] = "done" /\ lp[p].due => lp[p].result.user # {}

\* C11 (as claimed): a mutating request to an /api route reaches its route
\* handler only with an X-CSRF-Token header equal to the CSRF token of the
\* session its cookie names, and such a request with a valid session does
\* reach it.
C11_MutatingNeedsToken ==
    /\ [](\A p \in Procs :
            /\ req[p].stage = "handler"
            /\ StartsWithApi(req[p].path)
            /\ RequiresCsrfProtection(req[p].method)
            => \E row \in req[p].session : req[p].csrf = {row.csrf_token})
    /\ [][\A p \in Procs :
            /\ req[p].stage = "getSession"
            /\ req'[p].stage # "getSession"
            /\ \E row \in apiSessions :
                  /\ req[p].cookie.session_token = {row.session_token}
                  /\ row.expires_at = "future"
                  /\ req[p].csrf = {row.csrf_token}
            => req'[p].stage = "handler"]_vars

C13_OriginMustMatch ==
    call.done /\ call.fn = "validateOrigin" /\ call.out.value =>
        \/ \E o \in call.origin : o # EmptyOrigin /\ o \in call.allowedOrigins
        \/ /\ call.origin \in {{}, {EmptyOrigin}}
           /\ \E r \in call.referer :
                  /\ r \notin {EmptyReferer, NotAUrl}
                  /\ UrlOrigin(r) \in call.allowedOrigins

\* ----------------------------------------------- tenants and memberships
TenantOps ==
    {"assignUserToBusiness", "createPortfolio", "togglePortfolioVisibility",
     "addComment", "BusinessPage", "PortfolioPage"}

\* The handler is past validateSessionToken and the test of its form, with
\* an account, in one of the tenant-scoped operations.
InTenantOp(p) ==
    /\ pc[p] \in {"access", "target", "existing", "insertMember", "insertPortfolio",
                  "portfolio", "updateVisibility", "insertComment", "comments",
                  "listing", "returned"}
    /\ tl[p].call.op \in TenantOps
    /\ tl[p].call.input = "ok"
    /\ CurrentUser(p) # {}

\* The tenant of the call exists.
TenantExists(p) == \E b \in business : b.businessUuid = tl[p].call.biz

\* The caller's membership rows in the tenant of the call.
CallerMemberships(p) ==
    {m \in userBusiness :
        /\ m.userId \in CurrentUser(p)
        /\ \E b \in business :
              b.businessUuid = tl[p].call.biz /\ b.businessId = m.businessId}

\* C14: in each tenant-scoped operation an authenticated caller without a
\* membership row for the tenant of the call, whether that tenant exists or
\* not, ends with one and the same outcome, which depends on the operation
\* alone (the generic error of an action, notFound of a page), and no step of
\* its handler creates or changes a row of the tenant tables.
C14_NonMemberAsNoTenant ==
    /\ [](\A p \in Procs :
            InTenantOp(p) /\ CallerMemberships(p) = {} /\ pc[p] = "returned"
                => tl[p].result = Refused(tl[p].call.op))
    /\ [][\A p \in Procs :
            InTenantOp(p) /\ CallerMemberships(p) = {}
                => /\ UNCHANGED <<business, userBusiness, portfolio, comment>>
                   /\ pc'[p] \in {"returned", "idle"}]_vars

\* A caller who is no member of an existing tenant has been refused.
C14_Witness ==
    \E p \in Procs :
        /\ InTenantOp(p) /\ pc[p] = "returned"
        /\ TenantExists(p) /\ CallerMemberships(p) = {}
        /\ tl[p].call.op = "PortfolioPage"
        /\ \E r \in portfolio :
              /\ r.portfolioUuid = tl[p].call.port
              /\ r.visibility = "visible"
              /\ \E b \in business :
                    b.businessUuid = tl[p].call.biz /\ b.businessId = r.businessId
        /\ tl[p].result = Refused("PortfolioPage")

\* The portfolios of the tenant the handler was given access to, and of
\* them those its role may see.
TenantPortfolios(p) == {r \in portfolio : r.businessId = TheAccess(p).businessId}
VisibleTo(p) ==
    IF TheAccess(p).role = "admin" THEN TenantPortfolios(p)
    ELSE {r \in TenantPortfolios(p) : r.visibility = "visible"}

\* A page has answered a caller who has a membership in the tenant.
PageAnswered(p, op) ==
    /\ InTenantOp(p) /\ pc[p] = "returned"
    /\ tl[p].call.op = op
    /\ tl[p].access # {}

C15_WitnessAdmin ==
    \E p \in Procs :
        /\ PageAnswered(p, "PortfolioPage")
        /\ TheAccess(p).role = "admin"
        /\ tl[p].result.out = "rendered"
        /\ \E r \in tl[p].result.shown : r.visibility = "hidden"

\* The caller holds role admin in the tenant that owns the portfolio of
\* the call.
CallerAdminOfOwner(p) ==
    \E r \in portfolio :
        /\ r.portfolioUuid = tl[p].call.port
        /\ \E m \in userBusiness :
              /\ m.userId \in CurrentUser(p)
              /\ m.businessId = r.businessId
              /\ m.role = "admin"

\* Some portfolio's visibility differs between the two states of a step.
VisibilityChanges ==
    \E r \in portfolio : \E q \in portfolio' :
        q.portfolioId = r.portfolioId /\ q.visibility # r.visibility

\* C16: a step changes the visibility of a portfolio only as the update of
\* togglePortfolioVisibility called by an admin of the tenant that owns
\* that portfolio, and then of that portfolio alone; a call by anyone else
\* (a member, a non-member, nobody) returns an error.
C16_ToggleOnlyByAdmin ==
    /\ [](\A p \in Procs :
            /\ pc[p] = "returned"
            /\ tl[p].call.op = "togglePortfolioVisibility"
            /\ ~CallerAdminOfOwner(p)
            => tl[p].result \in {Unauthorized("togglePortfolioVisibility"),
                                 Refused("togglePortfolioVisibility")})
    /\ [][VisibilityChanges =>
            \E p \in Procs :
                /\ pc[p] = "updateVisibility"
                /\ tl[p].call.op = "togglePortfolioVisibility"
                /\ CallerAdminOfOwner(p)
                /\ \A r \in portfolio :
                      r.portfolioUuid # tl[p].call.port => r \in portfolio']_vars

\* A member of the tenant that owns a portfolio has called toggle on it
\* and got the error.
C16_Witness ==
    \E p \in Procs :
        /\ pc[p] = "returned"
        /\ tl[p].call.op = "togglePortfolioVisibility"
        /\ tl[p].result = Refused("togglePortfolioVisibility")
        /\ \E r \in portfolio :
              /\ r.portfolioUuid = tl[p].call.port
              /\ \E b \in business :
                    b.businessUuid = tl[p].call.biz /\ b.businessId = r.businessId
              /\ \E m \in userBusiness :
                    /\ m.userId \in CurrentUser(p)
                    /\ m.businessId = r.businessId
                    /\ m.role = "member"

\* An admin has toggled a portfolio of its tenant.
C16_WitnessAdmin ==
    \E p \in Procs :
        /\ pc[p] = "returned"
        /\ tl[p].call.op = "togglePortfolioVisibility"
        /\ tl[p].result = Success
        /\ \E r \in portfolio :
              r.portfolioUuid = tl[p].call.port /\ r.visibility = "visible"

\* The caller's membership rows in the tenant that owns the portfolio of
\* the call, when that is the tenant the call names.
MembershipsInOwner(p) ==
    {m \in userBusiness :
        /\ m.userId \in CurrentUser(p)
        /\ \E r \in portfolio : \E b \in business :
              /\ r.portfolioUuid = tl[p].call.port
              /\ r.businessId = m.businessId
              /\ b.businessId = m.businessId
              /\ b.businessUuid = tl[p].call.biz}

\* The caller may comment on the portfolio of the call: it has a
\* membership in the owning tenant and is admin or the portfolio is visible.
MayComment(p) ==
    \E m \in MembershipsInOwner(p) :
        \/ m.role = "admin"
        \/ \E r \in portfolio :
              r.portfolioUuid = tl[p].call.port /\ r.visibility = "visible"

\* C17: a step changes the comment table only as the insert of addComment
\* by a caller who may comment, and it adds exactly one row, whose author is
\* the caller and whose portfolio is the target; an addComment by a caller
\* who may not comment returns an error.
C17_CommentNeedsAccess ==
    /\ [](\A p \in Procs :
            /\ pc[p] = "returned"
            /\ tl[p].call.op = "addComment"
            /\ ~MayComment(p)
            => tl[p].result.out \in {"Unauthorized", "Invalid comment",
                                     "Something went wrong"})
    /\ [][comment' # comment =>
            \E p \in Procs :
                /\ pc[p] = "insertComment"
                /\ tl[p].call.op = "addComment"
                /\ MayComment(p)
                /\ tl'[p].result = Success
                /\ \E k \in comment' \ comment :
                      /\ comment' = comment \cup {k}
                      /\ k.userId \in CurrentUser(p)
                      /\ \E r \in portfolio :
                            /\ r.portfolioUuid = tl[p].call.port
                            /\ r.portfolioId = k.portfolioId]_vars

\* A member has called addComment on a hidden portfolio of its tenant and
\* got the error, and no comment is stored.
C17_Witness ==
    \E p \in Procs :
        /\ pc[p] = "returned"
        /\ tl[p].call.op = "addComment"
        /\ tl[p].call.input = "ok"
        /\ \E m \in MembershipsInOwner(p) : m.role = "member"
        /\ \E r \in portfolio :
              r.portfolioUuid = tl[p].call.port /\ r.visibility = "hidden"
        /\ tl[p].result = Refused("addComment")
        /\ comment = {}

\* A member has commented on a visible portfolio of its tenant.
C17_WitnessMember ==
    \E p \in Procs :
        /\ pc[p] = "returned"
        /\ tl[p].call.op = "addComment"
        /\ tl[p].result = Success
        /\ \E m \in MembershipsInOwner(p) : m.role = "member"
        /\ \E k \in comment : k.userId \in CurrentUser(p)

\* The caller's membership rows in the tenant the call names (the target
\* tenant of an assignment), and the accounts the email of the call belongs
\* to.
CallerAdminOfTarget(p) == \E m \in CallerMemberships(p) : m.role = "admin"
AccountsOfEmail(p) == {u \in Accounts : UserEmail(u) = ToLowerCase(tl[p].call.email)}

\* C18: a step changes the membership table, other than by createBusiness,
\* only as the insert of assignUserToBusiness called by an admin of the
\* target tenant with the email of an existing account, and it adds one row
\* for that account and that tenant with role member; a call by a member or
\* a non-member, or with an email of no account, returns the generic error.
C18_AssignNeedsAdminAndAccount ==
    /\ [](\A p \in Procs :
            /\ InTenantOp(p) /\ pc[p] = "returned"
            /\ tl[p].call.op = "assignUserToBusiness"
            /\ ~CallerAdminOfTarget(p) \/ AccountsOfEmail(p) = {}
            => tl[p].result = Outcome("Something went wrong"))
    /\ [][userBusiness' # userBusiness /\ business' = business =>
            \E p \in Procs :
                /\ pc[p] = "insertMember"
                /\ tl[p].call.op = "assignUserToBusiness"
                /\ CallerAdminOfTarget(p)
                /\ \E m \in userBusiness' \ userBusiness :
                      /\ userBusiness' = userBusiness \cup {m}
                      /\ m.userId \in AccountsOfEmail(p)
                      /\ m.role = "member"
                      /\ \E b \in business :
                            /\ b.businessUuid = tl[p].call.biz
                            /\ b.businessId = m.businessId]_vars

\* A member of a tenant has tried to assign an existing account to it and
\* got the generic error.
C18_Witness ==
    \E p \in Procs :
        /\ InTenantOp(p) /\ pc[p] = "returned"
        /\ tl[p].call.op = "assignUserToBusiness"
        /\ \E m \in CallerMemberships(p) : m.role = "member"
        /\ AccountsOfEmail(p) # {}
        /\ tl[p].result = Outcome("Something went wrong")

\* An admin has assigned an account, and the new row has role member.
C18_WitnessAssigned ==
    \E p \in Procs :
        /\ InTenantOp(p) /\ pc[p] = "returned"
        /\ tl[p].call.op = "assignUserToBusiness"
        /\ tl[p].result = Success
        /\ \E m \in userBusiness :
              m.userId \in AccountsOfEmail(p) /\ m.role = "member"

\* No account has two membership rows in one tenant.
OneMembershipPerPair ==
    \A m \in userBusiness : \A n \in userBusiness :
        m.userId = n.userId /\ m.businessId = n.businessId => m = n

\* The membership rows of the account an assignment is for, in the tenant
\* it is for.
TargetMemberships(p) ==
    {m \in userBusiness : m.userId \in tl[p].target
                            /\ m.businessId = TheAccess(p).businessId}

\* C19: with one request at a time, an assignment of an account that has
\* no membership in the tenant goes on to insert one, and an assignment of
\* an account that has one, as member from an earlier assignment or as the
\* admin who created the tenant, fails with the error of a duplicate and
\* leaves the membership table as it was: one row for the pair, with its
\* role.
C19_SecondAssignFails ==
    /\ []OneMembershipPerPair
    /\ [][\A p \in Procs :
            pc[p] = "existing" /\ pc'[p] # "existing" =>
                IF TargetMemberships(p) = {}
                  THEN pc'[p] = "insertMember"
                  ELSE /\ pc'[p] = "returned"
                       /\ tl'[p].result = Outcome("Something went wrong")
                       /\ userBusiness' = userBusiness]_vars
    /\ [][\A p \in Procs :
            pc[p] = "insertMember" /\ pc'[p] # "insertMember" =>
                /\ tl'[p].result = Success
                /\ \E m \in userBusiness' \ userBusiness :
                      /\ userBusiness' = userBusiness \cup {m}
                      /\ m.userId \in tl[p].target
                      /\ m.businessId = TheAccess(p).businessId]_vars

\* The second assignment of an account has failed: the account has its
\* one row, with role member, and the caller got the error.
C19_Witness ==
    \E p \in Procs :
        /\ pc[p] = "returned"
        /\ tl[p].call.op = "assignUserToBusiness"
        /\ tl[p].target # {}
        /\ \E m \in TargetMemberships(p) :
              TargetMemberships(p) = {m} /\ m.role = "member"
        /\ tl[p].result = Outcome("Something went wrong")

\* The assignment of the account that is admin of the tenant has failed,
\* and its row still has role admin.
C19_WitnessAdmin ==
    \E p \in Procs :
        /\ pc[p] = "returned"
        /\ tl[p].call.op = "assignUserToBusiness"
        /\ tl[p].target # {}
        /\ \E m \in TargetMemberships(p) :
              TargetMemberships(p) = {m} /\ m.role = "admin"
        /\ tl[p].result = Outcome("Something went wrong")

\* C20: in every reachable state, two assignments running at the same
\* time included, an account has at most one membership row in a tenant.
C20_OneRowPerPair ==
    \A u \in Accounts : \A b \in business :
        Cardinality({m \in userBusiness :
                        m.userId = u /\ m.businessId = b.businessId}) <= 1

\* The handler is inside the transaction of createBusiness.
InTransaction(p) == pc[p] \in {"transaction", "txMembership", "txCommit"}

\* C21: every business row has the admin membership row of its creator in
\* every reachable state, and a createBusiness that fails, at whichever
\* statement of its transaction, leaves the two tables as they were before
\* it, with none of the rows it had written.
C21_TenantWithAdmin ==
    /\ [](\A b \in business : \E m \in userBusiness :
             m.businessId = b.businessId /\ m.role = "admin")
    /\ [](\A p \in Procs :
            pc[p] = "returned" /\ tl[p].result = Outcome("Failed to create business")
                => /\ tl[p].tx.business \cap business = {}
                   /\ tl[p].tx.userBusiness \cap userBusiness = {})
    /\ [][\A p \in Procs :
            InTransaction(p) /\ ~InTransaction(p)'
                => \/ /\ tl'[p].result = Outcome("redirect /app")
                      /\ \E b \in business' \ business :
                         \E m \in userBusiness' \ userBusiness :
                            /\ business' = business \cup {b}
                            /\ userBusiness' = userBusiness \cup {m}
                            /\ m.businessId = b.businessId
                            /\ m.userId \in CurrentUser(p)
                            /\ m.role = "admin"
                   \/ /\ tl'[p].result = Outcome("Failed to create business")
                      /\ UNCHANGED <<business, userBusiness>>]_vars

\* createBusiness has failed after its transaction had inserted the
\* business row, and no business is stored.
C21_Witness ==
    \E p \in Procs :
        /\ pc[p] = "returned"
        /\ tl[p].result = Outcome("Failed to create business")
        /\ tl[p].tx.business # {}
        /\ tl[p].tx.userBusiness = {}
        /\ business = {}

\* The caller holds role admin in the tenant the call names.
CallerAdminOfCallTenant(p) == \E m \in CallerMemberships(p) : m.role = "admin"

\* C22: a step adds a portfolio only as the insert of createPortfolio
\* called by an admin of the tenant, and the row it adds belongs to that
\* tenant and is hidden; every stored portfolio's visibility is visible or
\* hidden; and a portfolio turns visible only by the update of a toggle.
C22_CreatedHidden ==
    /\ [](\A r \in portfolio : r.visibility \in {"visible", "hidden"})
    /\ [][\A r \in portfolio' :
            (\A q \in portfolio : q.portfolioId # r.portfolioId) =>
                /\ r.visibility = "hidden"
                /\ portfolio' = portfolio \cup {r}
                /\ \E p \in Procs :
                      /\ pc[p] = "insertPortfolio"
                      /\ tl[p].call.op = "createPortfolio"
                      /\ CallerAdminOfCallTenant(p)
                      /\ \E b \in business :
                            /\ b.businessUuid = tl[p].call.biz
                            /\ b.businessId = r.businessId]_vars
    /\ [][\A r \in portfolio' :
            r.visibility = "visible" /\ r \notin portfolio =>
                \E p \in Procs :
                    /\ pc[p] = "updateVisibility"
                    /\ r.portfolioUuid = tl[p].call.port]_vars

\* An admin has created a portfolio while the tenant has a member: the new
\* row is hidden.
C22_Witness ==
    \E p \in Procs :
        /\ pc[p] = "returned"
        /\ tl[p].call.op = "createPortfolio"
        /\ tl[p].result = Success
        /\ \E r \in portfolio :
              /\ r.businessId = TheAccess(p).businessId
              /\ r.visibility = "hidden"
              /\ \E m \in userBusiness :
                    m.businessId = r.businessId /\ m.role = "member"

\* C23: the comments a portfolio page was given are in the order of
\* their creation: an earlier comment stands before every later one.
C23_ChronologicalOrder ==
    \A p \in Procs :
        pc[p] = "returned" /\ tl[p].result.out = "rendered" =>
            LET cs == tl[p].result.comments
            IN  \A i \in 1..Len(cs) : \A j \in 1..Len(cs) :
                    i < j => cs[i].createdAt <= cs[j].createdAt

\* C24: verifyPassword(hashPassword(p), q) is true when q is p and false
\* for every other password q, whichever salt the hash drew.
C24_VerifyOfHash ==
    call.fn = "hashThenVerify" /\ call.done =>
        /\ ~call.out.throws
        /\ call.out.value = (call.other = call.password)

\* Both cases have been computed: the password itself, and another one.
C24_Witness ==
    /\ call.fn = "hashThenVerify" /\ call.done
    /\ call.other # call.password
    /\ call.hash = {HashPassword(call.password, call.salt)}
    /\ ~call.out.value

C24_WitnessSame ==
    /\ call.fn = "hashThenVerify" /\ call.done
    /\ call.other = call.password
    /\ call.out.value

\* ------------------------------------------------------ signup and login
\* The account a login selected has a password_hash that is no encoded
\* hash.
MalformedStored(p) ==
    /\ al[p].op = "login"
    /\ \E r \in al[p].existingUser : r.passwordHash \in MalformedHashes

\* C25: verifyPassword, called by login on a stored value that is no
\* encoded hash, throws nothing and returns false; that login returns the
\* value every failed login returns, and no session is ever created for
\* such an account.
C25_MalformedHashFails ==
    /\ \A p \in Procs :
          MalformedStored(p) =>
              /\ \A v \in al[p].verified : ~v.throws /\ ~v.value
              /\ al[p].at \in {"verify", "returned"}
              /\ al[p].at = "returned" =>
                    al[p].result = AuthError /\ al[p].verified # {}
    /\ \A r \in user :
          r.passwordHash \in MalformedHashes =>
              \A row \in sessions : row.userId # r.userId

\* A login for an account with such a stored value has returned.
C25_Witness ==
    \E p \in Procs :
        /\ MalformedStored(p)
        /\ al[p].at = "returned"
        /\ al[p].verified = {[throws |-> FALSE, value |-> FALSE]}
        /\ al[p].result = AuthError
        /\ sessions = {}

\* The ways signup and login have failed, read off a handler that has
\* returned.
Returned(p, op) == al[p].at = "returned" /\ al[p].op = op
LoginNoAccount(p) ==
    Returned(p, "login") /\ al[p].input = "ok" /\ al[p].existingUser = {}
LoginWrongPassword(p) ==
    /\ Returned(p, "login")
    /\ \E r \in al[p].existingUser :
          r.passwordHash # HashPassword(al[p].password, r.passwordHash.salt)
    /\ al[p].verified # {}
SignupEmailTaken(p) ==
    Returned(p, "signup") /\ al[p].input = "ok" /\ al[p].passwordHash = {}
SignupInvalidInput(p) == Returned(p, "signup") /\ al[p].input = "bad"

\* C26: a login that found no account and a login with a wrong password
\* return one and the same value, and so do a signup with a registered
\* email and a signup with an invalid form; a step that ends in one of these
\* failures adds no session and no account; and a session is added only by
\* the createSession of a login whose verifyPassword returned true for the
\* account its email selected, and it is a session of that account.
C26_UniformFailures ==
    /\ [](\A p \in Procs : \A q \in Procs :
            /\ LoginNoAccount(p) /\ LoginWrongPassword(q)
                  => al[p].result = al[q].result
            /\ SignupEmailTaken(p) /\ SignupInvalidInput(q)
                  => al[p].result = al[q].result
            /\ LoginNoAccount(p) \/ LoginWrongPassword(p) \/ SignupEmailTaken(p)
                 \/ SignupInvalidInput(p)
                  => al[p].created = {} /\ al[p].result \notin {"redirect /login",
                                              "redirect /app/business-manager"})
    /\ [][\A p \in Procs :
            /\ al[p].at # "returned"
            /\ (LoginNoAccount(p) \/ LoginWrongPassword(p) \/ SignupEmailTaken(p)
                  \/ SignupInvalidInput(p))'
            => sessions' = sessions /\ user' = user]_vars
    /\ [][sessions' # sessions =>
            \E p \in Procs : \E r \in al[p].existingUser :
                /\ al[p].at = "session"
                /\ r \in user /\ r.email = al[p].email
                /\ al[p].verified = {[throws |-> FALSE, value |-> TRUE]}
                /\ VerifyPassword(r.passwordHash, al[p].password).value
                /\ \E row \in sessions' \ sessions :
                      sessions' = sessions \cup {row} /\ row.userId = r.userId]_vars

\* One login has failed for want of an account while another has failed
\* on the password of an account that exists.
C26_Witness ==
    \E p \in Procs : \E q \in Procs :
        /\ LoginNoAccount(p) /\ LoginWrongPassword(q)
        /\ al[p].result = AuthError
        /\ sessions = {}

\* A login has created its session.
C26_WitnessSession ==
    \E p \in Procs : al[p].at = "cookie" /\ al[p].created \subseteq sessions
                     /\ al[p].created # {}

\* A signup has lost to another for its email: it had found the email
\* free and hashed its password, and its insert met the other's row.
SignupLost(p) ==
    /\ Returned(p, "signup")
    /\ al[p].passwordHash # {}
    /\ al[p].result # "redirect /login"

\* C27: in every reachable state, also with two signups for one email
\* running at the same time, the user table has at most one row per email;
\* the signup whose insert comes second returns the generic error and
\* inserts nothing, and no step changes or removes a row that is stored.
C27_OneAccountPerEmail ==
    /\ [](\A r \in user : \A q \in user : r.email = q.email => r = q)
    /\ [](\A p \in Procs : SignupLost(p) => al[p].result = AuthError)
    /\ [][\A p \in Procs :
            al[p].at = "insert" /\ SelectUser(user, al[p].email) # {}
            /\ al'[p].at # "insert"
                => al'[p].result = AuthError /\ user' = user]_vars
    /\ [][user \subseteq user']_vars

\* Two signups with different passwords raced for one email: one row is
\* stored, with the winner's hash, and the loser got the error.
C27_Witness ==
    \E p \in Procs :
        /\ SignupLost(p)
        /\ al[p].result = AuthError
        /\ \E r \in user :
              /\ r.email = al[p].email
              /\ r.passwordHash.format = "$argon2id$"
              /\ r.passwordHash \notin al[p].passwordHash

\* -------------------------------------------- the order of the checks
\* Some row of the tenant tables is added or changed by the step.
TenantWrite ==
    <<business, userBusiness, portfolio, comment>>'
        # <<business, userBusiness, portfolio, comment>>

\* The membership rows in the tenant of the call of the account that
\* validateSessionToken returned.
ValidatedMemberships(p) ==
    {m \in userBusiness :
        /\ m.userId \in lp[p].result.user
        /\ \E b \in business :
              b.businessUuid = tl[p].call.biz /\ b.businessId = m.businessId}

\* C28: a step writes to the tenant tables only in a handler to which
\* validateSessionToken has returned a user and, unless the action is
\* createBusiness, for which that user has a membership in the tenant of
\* the call; a handler without a user returns Unauthorized, and that before
\* it has read any of the tables.
C28_ChecksBeforeWrites ==
    /\ [](\A p \in Procs :
            pc[p] \notin {"idle", "expiry", "window", "compute", "done", "enter"}
            /\ tl[p].call.op # "none" /\ lp[p].result.user = {}
                => /\ pc[p] = "returned"
                   /\ tl[p].result = Unauthorized(tl[p].call.op)
                   /\ tl[p].access = {} /\ tl[p].target = {} /\ tl[p].pdata = {})
    /\ [][TenantWrite =>
            \E p \in Procs :
                /\ pc[p] \in {"txCommit", "insertMember", "insertPortfolio",
                              "updateVisibility", "insertComment"}
                /\ pc'[p] = "returned"
                /\ lp[p].result.user # {}
                /\ tl[p].call.op # "createBusiness" => ValidatedMemberships(p) # {}]_vars

\* A caller without a valid session has called an action that writes,
\* for an existing tenant with a portfolio, and was turned away.
C28_Witness ==
    \E p \in Procs :
        /\ pc[p] = "returned"
        /\ tl[p].call.op \in {"togglePortfolioVisibility", "addComment"}
        /\ lp[p].result.user = {}
        /\ tl[p].result = Outcome("Unauthorized")
        /\ \E r \in portfolio : \E b \in business :
              /\ r.portfolioUuid = tl[p].call.port
              /\ b.businessUuid = tl[p].call.biz
              /\ b.businessId = r.businessId

\* ------------------------------------- hidden as good as non-existent
\* A member of the tenant of the call has had an answer from the portfolio
\* page or from addComment.
MemberAnswered(p) ==
    /\ InTenantOp(p) /\ pc[p] = "returned"
    /\ tl[p].call.op \in {"PortfolioPage", "addComment"}
    /\ \E m \in CallerMemberships(p) : m.role = "member"

\* The portfolios of the tenant of the call that carry the identifier of
\* the call.
AskedInTenant(p) ==
    {r \in portfolio :
        /\ r.portfolioUuid = tl[p].call.port
        /\ \E b \in business :
              b.businessUuid = tl[p].call.biz /\ b.businessId = r.businessId}

\* What the operation answers for an identifier the tenant has no portfolio
\* of: notFound of the page, the generic error of addComment.
NoSuchPortfolio(op) ==
    IF op = "PortfolioPage" THEN Outcome("notFound")
    ELSE Outcome("Something went wrong")

\* C29: the portfolio page and addComment answer a member the same for a
\* hidden portfolio of the tenant as for an identifier the tenant has no
\* portfolio of (one that exists nowhere, or one of another tenant): the
\* answer depends on the operation alone, and the handler changes no row.
C29_HiddenAsAbsent ==
    /\ [](\A p \in Procs :
            MemberAnswered(p) =>
              /\ AskedInTenant(p) = {} => tl[p].result = NoSuchPortfolio(tl[p].call.op)
              /\ (\E r \in AskedInTenant(p) : r.visibility = "hidden")
                    => tl[p].result = NoSuchPortfolio(tl[p].call.op))
    /\ [][\A p \in Procs :
            (/\ MemberAnswered(p)'
             /\ pc[p] # "returned"
             /\ \A r \in AskedInTenant(p) : r.visibility = "hidden")
                => UNCHANGED <<business, userBusiness, portfolio, comment>>]_vars

\* A member has sent a comment to a hidden portfolio of its tenant.
C29_Witness ==
    \E p \in Procs :
        /\ MemberAnswered(p)
        /\ tl[p].call.op = "addComment"
        /\ \E r \in AskedInTenant(p) : r.visibility = "hidden"
        /\ tl[p].result = Outcome("Something went wrong")

\* A member has asked for the page of a portfolio that another tenant has
\* and its own has not.
C29_WitnessAbsent ==
    \E p \in Procs :
        /\ MemberAnswered(p)
        /\ tl[p].call.op = "PortfolioPage"
        /\ AskedInTenant(p) = {}
        /\ \E r \in portfolio : r.portfolioUuid = tl[p].call.port
        /\ tl[p].result = Outcome("notFound")

\* A member has asked for the page of a hidden portfolio of its tenant.
C29_WitnessPage ==
    \E p \in Procs :
        /\ MemberAnswered(p)
        /\ tl[p].call.op = "PortfolioPage"
        /\ \E r \in AskedInTenant(p) : r.visibility = "hidden"
        /\ tl[p].result = Outcome("notFound")

\* ------------------------------------------------- createSession, tokens
\* createSession has run in the step: the insert took a serial number.
CreateSessionRan == nextSessionId' # nextSessionId

\* C30: no two stored sessions share a token.  A createSession whose
\* generated token is that of a stored session fails at the insert: it adds
\* no row and leaves every stored session as it was, owner and expiry
\* included; one that succeeds adds exactly its own row.  No step gives the
\* token of a stored session to a row of another user.
C30_NoSharedToken ==
    /\ [](\A r \in sessions : \A q \in sessions :
            r.sessionToken = q.sessionToken => r = q)
    /\ [][CreateSessionRan =>
            /\ sessions \subseteq sessions'
            /\ Cardinality(sessions') <= Cardinality(sessions) + 1
            /\ \A q \in sessions' \ sessions :
                  /\ q.sessionId = nextSessionId
                  /\ q.sessionToken \notin StoredTokens(sessions)]_vars
    /\ [][\A r \in sessions : \A q \in sessions' :
            r.sessionToken = q.sessionToken => r.userId = q.userId]_vars

\* One account holds a session, nothing was deleted, and a createSession
\* has failed: serial number 2 was taken and no row carries it.
C30_Witness ==
    /\ gone = {}
    /\ nextSessionId = 3
    /\ \E r \in sessions : sessions = {r} /\ r.sessionId = 1

\* ------------------------------------- what validateSessionToken touches
\* The handler's validateSessionToken takes a step.
ValidateStep(p) ==
    /\ pc[p] \in {"expiry", "delete", "window", "compute", "update"}
    /\ pc'[p] # pc[p]

\* Every row but the one the handler read is in the table as it was, and
\* no row is new.
OnlyTheRowTouched(p) ==
    /\ \A r \in sessions : r.sessionId # TheRow(p).sessionId => r \in sessions'
    /\ \A q \in sessions' :
          \/ q \in sessions
          \/ q.sessionId = TheRow(p).sessionId

\* C31: validateSessionToken writes in two places only.  Its delete, taken
\* when the expiry it read has passed, removes the row of the session it
\* read and nothing else; its update sets the expiry of that row to the
\* value it computed and leaves owner and token as they were; every other
\* row, of the same or of another user, stays in the table unchanged, and
\* its other steps leave the table alone.  No step of any operation changes
\* the owner or the token of a stored session.
C31_ValidateFrame ==
    /\ [][\A p \in Procs : ValidateStep(p) =>
            /\ OnlyTheRowTouched(p)
            /\ pc[p] \notin {"delete", "update"} => sessions' = sessions
            /\ pc[p] = "delete" =>
                  /\ IsExpired(now, TheRow(p).expiresAt)
                  /\ \A q \in sessions' : q.sessionId # TheRow(p).sessionId
            /\ pc[p] = "update" =>
                  \A r \in sessions : r.sessionId = TheRow(p).sessionId =>
                      /\ [r EXCEPT !.expiresAt = lp[p].newExp] \in sessions'
                      /\ \A q \in sessions' :
                            q.sessionId = r.sessionId =>
                                q = [r EXCEPT !.expiresAt = lp[p].newExp]]_vars
    /\ [][\A r \in sessions : \A q \in sessions' :
            r.sessionId = q.sessionId =>
                r.userId = q.userId /\ r.sessionToken = q.sessionToken]_vars

\* validateSessionToken has extended one of two sessions of an account:
\* the other still has the expiry it was created with.
C31_Witness ==
    \E p \in Procs :
        /\ pc[p] = "done" /\ lp[p].path = "valid"
        /\ \E r \in lp[p].result.session :
              /\ r.expiresAt # TheRow(p).expiresAt
              /\ r \in sessions
              /\ \E q \in sessions :
                    /\ q.sessionId # r.sessionId
                    /\ q.userId = r.userId
                    /\ q.expiresAt < r.expiresAt

\* validateSessionToken has deleted the expired one of two sessions.
C31_WitnessDelete ==
    \E p \in Procs :
        /\ pc[p] = "done" /\ lp[p].path = "expired"
        /\ sessions # {}
        /\ \A q \in sessions : q.sessionId # TheRow(p).sessionId

\* ------------------------------------------- missing and wrong CSRF header
\* The method is GET, HEAD or OPTIONS with each letter in either case.
SafeSpelling(m) ==
    \E s \in {GET, HEAD, OPTIONS} :
        /\ Len(m) = Len(s)
        /\ \A i \in 1..Len(s) : m[i] = s[i] \/ m[i] = s[i] + 32

\* The request carries no X-CSRF-Token header, and it carries one that is
\* not the CSRF token of the session.
HeaderMissing(p) == req[p].csrf = {}
HeaderWrong(p, row) == req[p].csrf # {} /\ req[p].csrf # {row.csrf_token}

\* C32: the middleware answers a request to a route other than an auth
\* endpoint whose X-CSRF-Token header is missing and one whose header is
\* not the token of the session alike: validateCsrfToken is false for both
\* and the response is the one 403, whatever the header was.
\* requiresCsrfProtection is false exactly for GET, HEAD and OPTIONS in any
\* letter case: an /api request with such a method goes to its handler
\* without the cookie and token tests, every other one goes through them.
C32_UniformCsrfRejection ==
    /\ [][\A p \in Procs :
            /\ req[p].stage = "getSession" /\ req'[p].stage # "getSession"
            /\ ~IsAuthEndpoint(req[p].path)
            => \A row \in UNION {GetSession(apiSessions, t) :
                                    t \in req[p].cookie.session_token} :
                  HeaderMissing(p) \/ HeaderWrong(p, row) =>
                      /\ ~ValidateCsrfToken(req[p].csrf, row.csrf_token)
                      /\ req'[p] = [req[p] EXCEPT !.stage = "rejected", !.status = 403,
                                                  !.session = {row}]]_vars
    /\ [](\A p \in Procs :
            req[p].stage # "none" =>
                RequiresCsrfProtection(req[p].method) = ~SafeSpelling(req[p].method))
    /\ [][\A p \in Procs :
            req[p].stage = "none" /\ req'[p].stage # "none" /\ StartsWithApi(req'[p].path)
                => (req'[p].stage = "handler") = SafeSpelling(req'[p].method)]_vars

\* A request with a valid session and no X-CSRF-Token header was answered
\* 403.
C32_Witness ==
    \E p \in Procs :
        /\ req[p].stage = "rejected" /\ req[p].status = 403
        /\ req[p].csrf = {}
        /\ req[p].session # {}

\* A request with a valid session and the CSRF token of no session was
\* answered 403.
C32_WitnessWrong ==
    \E p \in Procs :
        /\ req[p].stage = "rejected" /\ req[p].status = 403
        /\ \E h \in req[p].csrf : h # <<>> /\ \A row \in req[p].session : h # row.csrf_token
        /\ req[p].session # {}

\* An /api request with a safe method not written in capitals went to its
\* handler without a session.
C32_WitnessSafe ==
    \E p \in Procs :
        /\ req[p].stage = "handler" /\ req[p].path = "/api/items"
        /\ req[p].method \notin {GET, HEAD, OPTIONS}
        /\ SafeSpelling(req[p].method)
        /\ req[p].session = {}

\* ------------------------------------------------ no cross-tenant effect
\* The portfolio of the call is a portfolio of another tenant than the one
\* the call names.
PortfolioOfOtherTenant(p) ==
    /\ AskedInTenant(p) = {}
    /\ \E r \in portfolio : r.portfolioUuid = tl[p].call.port

\* C33: togglePortfolioVisibility and addComment, called by a member or
\* admin of tenant X for a portfolio that X does not have (one of another
\* tenant included), change no row of the tenant tables and return the
\* error; a toggle that succeeds changes the visibility of the portfolio of
\* the call, which is one of the tenant of the call, to the other value and
\* leaves every other portfolio as it was.
C33_NoCrossTenantEffect ==
    /\ [][\A p \in Procs :
            /\ InTenantOp(p)
            /\ tl[p].call.op \in {"togglePortfolioVisibility", "addComment"}
            /\ AskedInTenant(p) = {}
            /\ pc[p] # "returned"
            => /\ UNCHANGED <<business, userBusiness, portfolio, comment>>
               /\ pc'[p] = "returned" => tl'[p].result = Outcome("Something went wrong")]_vars
    /\ [][\A p \in Procs :
            /\ pc[p] = "updateVisibility" /\ pc'[p] = "returned"
            /\ tl'[p].result = Success
            => /\ \E r \in AskedInTenant(p) :
                    [r EXCEPT !.visibility = NewVisibility(r.visibility)] \in portfolio'
               /\ \A r \in portfolio : r.portfolioUuid # tl[p].call.port => r \in portfolio'
               /\ \A q \in portfolio' :
                     q \in portfolio \/ q.portfolioUuid = tl[p].call.port
               /\ Cardinality(portfolio') = Cardinality(portfolio)]_vars

\* An admin of one tenant has called togglePortfolioVisibility for a
\* portfolio of another tenant and got the error.
C33_Witness ==
    \E p \in Procs :
        /\ InTenantOp(p) /\ pc[p] = "returned"
        /\ tl[p].call.op = "togglePortfolioVisibility"
        /\ \E m \in CallerMemberships(p) : m.role = "admin"
        /\ PortfolioOfOtherTenant(p)
        /\ tl[p].result = Outcome("Something went wrong")

\* An admin has called addComment for a visible portfolio of another tenant.
C33_WitnessComment ==
    \E p \in Procs :
        /\ InTenantOp(p) /\ pc[p] = "returned"
        /\ tl[p].call.op = "addComment"
        /\ \E m \in CallerMemberships(p) : m.role = "admin"
        /\ AskedInTenant(p) = {}
        /\ \E r \in portfolio : r.portfolioUuid = tl[p].call.port /\ r.visibility = "visible"
        /\ tl[p].result = Outcome("Something went wrong")

\* A toggle has succeeded in a tenant with two portfolios.
C33_WitnessToggle ==
    \E p \in Procs :
        /\ pc[p] = "returned"
        /\ tl[p].call.op = "togglePortfolioVisibility"
        /\ tl[p].result = Success
        /\ \E r \in AskedInTenant(p) : \E q \in portfolio :
              q.businessId = r.businessId /\ q # r /\ q.visibility # r.visibility

\* ------------------------------------- comments and toggles interleaved
\* The stored rows of the portfolio the handler selected.
StoredPortfolio(p) == {r \in portfolio : r.portfolioId = ThePortfolio(p).portfolioId}

\* C34: whenever addComment of a caller who is member of the tenant inserts
\* its comment, the stored visibility of the portfolio is visible at that
\* step, however the steps of a togglePortfolioVisibility fall between those
\* of the addComment.
C34_MemberCommentsOnVisible ==
    [][\A p \in Procs :
        /\ pc[p] = "insertComment"
        /\ comment' # comment
        /\ TheAccess(p).role = "member"
        => \A r \in StoredPortfolio(p) : r.visibility = "visible"]_vars

\* C35: a togglePortfolioVisibility that succeeds leaves the stored
\* visibility of its portfolio different from what it was before its
\* update, so that after n of them, one after another or at the same time,
\* the visibility differs from the first one exactly when n is odd.
C35_ToggleFlips ==
    [][\A p \in Procs :
        /\ pc[p] = "updateVisibility" /\ pc'[p] = "returned"
        /\ tl'[p].result = Success
        => \A r \in StoredPortfolio(p) : \A q \in portfolio' :
              q.portfolioId = r.portfolioId => q.visibility # r.visibility]_vars

\* ------------------------------------------------- memberships are kept
\* The account holds role admin in the tenant.
AdminOf(u, b, UB) ==
    \E m \in UB : m.userId = u /\ m.businessId = b /\ m.role = "admin"

\* C36: no step removes a membership row or changes one: every row stays
\* in the table as it is, role included.  A row with role admin is added
\* only together with its tenant, for the creator; in a tenant that exists
\* an account that is not admin is not admin after the step either.
C36_MembershipsKept ==
    /\ [][\A m \in userBusiness : m \in userBusiness']_vars
    /\ [][\A n \in userBusiness' \ userBusiness :
            /\ \A m \in userBusiness : m.userBusinessId # n.userBusinessId
            /\ n.role = "admin" =>
                  /\ \A b \in business : b.businessId # n.businessId
                  /\ \E b \in business' : b.businessId = n.businessId]_vars
    /\ [][\A u \in Accounts : \A b \in business :
            ~AdminOf(u, b.businessId, userBusiness)
                => ~AdminOf(u, b.businessId, userBusiness')]_vars

\* A member of a tenant has called assignUserToBusiness with its own email
\* and got the error; it has its one row, with role member.
C36_Witness ==
    \E p \in Procs :
        /\ InTenantOp(p) /\ pc[p] = "returned"
        /\ tl[p].call.op = "assignUserToBusiness"
        /\ AccountsOfEmail(p) = CurrentUser(p)
        /\ \E m \in CallerMemberships(p) :
              CallerMemberships(p) = {m} /\ m.role = "member"
        /\ tl[p].result = Outcome("Something went wrong")

\* ------------------------------------- assigning a registered account
\* The accounts registered under the email as the assignment form has it.
RegisteredAs(email) == {r \in user : r.email = email}

\* The membership rows of the account in the tenant the handler has access
\* to.
MembershipsOf(p, u, UB) ==
    {m \in UB : m.userId = u /\ m.businessId = TheAccess(p).businessId}

\* C37: assignUserToBusiness called by an admin of the tenant with the
\* email under which an account is registered, spelled as it was registered,
\* finds that account at its look-up; for an account it found that has no
\* membership in the tenant it goes on to the insert, which adds the
\* membership and returns success.
C37_RegisteredIsAssignable ==
    /\ [][\A p \in Procs :
            /\ pc[p] = "target" /\ pc'[p] # "target"
            /\ tl[p].call.op = "assignUserToBusiness"
            => \A r \in RegisteredAs(tl[p].call.email) :
                  pc'[p] = "existing" /\ tl'[p].target = {r.userId}]_vars
    /\ [][\A p \in Procs :
            /\ pc[p] = "existing" /\ pc'[p] # "existing"
            /\ \A u \in tl[p].target : MembershipsOf(p, u, userBusiness) = {}
            => pc'[p] = "insertMember"]_vars
    /\ [][\A p \in Procs :
            pc[p] = "insertMember" /\ pc'[p] # "insertMember"
            => /\ tl'[p].result = Success
               /\ \A u \in tl[p].target : MembershipsOf(p, u, userBusiness') # {}]_vars

\* ------------------------------------------ the clock readings of one call
\* The clock reading the handler computed its new expiry from.
ComputedFrom(p) == lp[p].newExp - THIRTY_DAYS_MS

\* C38: whenever validateSessionToken writes a new expiry, the expiry the
\* row held until then is strictly later than the clock reading the new
\* expiry was computed from: a session that had expired by that reading is
\* not extended.
C38_NoExtensionOfExpired ==
    [][\A p \in Procs :
        pc[p] = "update" /\ sessions' # sessions
            => \A r \in sessions :
                  r.sessionId = TheRow(p).sessionId => r.expiresAt > ComputedFrom(p)]_vars

\* --------------------------------------------- an error leaves no trace
Actions ==
    {"createBusiness", "assignUserToBusiness", "createPortfolio",
     "togglePortfolioVisibility", "addComment"}

\* The value an action returns is one of its errors.
IsError(result) ==
    result.out \in {"Unauthorized", "Invalid business name", "Invalid portfolio title",
                    "Invalid comment", "Something went wrong",
                    "Failed to create business"}

\* C39: a step of an action changes the tenant tables only as the last
\* step of its handler, the one with which it returns success (or, in
\* createBusiness, redirects); a handler that returns an error has taken
\* no step that changed them, and its returning step changes nothing
\* either, whatever made it return the error.
C39_ErrorLeavesTables ==
    /\ [][TenantWrite =>
            \E p \in Procs :
                /\ tl[p].call.op \in Actions
                /\ pc[p] # "returned" /\ pc'[p] = "returned"
                /\ ~IsError(tl'[p].result)]_vars
    /\ [][\A p \in Procs :
            /\ tl'[p].call.op \in Actions
            /\ pc[p] # "returned" /\ pc'[p] = "returned"
            /\ IsError(tl'[p].result)
            => UNCHANGED <<business, userBusiness, portfolio, comment>>]_vars
    /\ [](\A p \in Procs :
            pc[p] = "returned" /\ tl[p].call.op \in Actions
                => IsError(tl[p].result) \/ tl[p].result.out \in {"success", "redirect /app"})

\* An addComment that had passed its tests has failed at its insert while
\* the tenant has one comment: that comment is all there is.
C39_Witness ==
    \E p \in Procs :
        /\ pc[p] = "returned"
        /\ tl[p].call.op = "addComment"
        /\ tl[p].pdata # {}
        /\ tl[p].result = Outcome("Something went wrong")
        /\ Cardinality(comment) = 1

\* createBusiness has failed in its transaction after the insert of the
\* business row.
C39_WitnessTransaction ==
    \E p \in Procs :
        /\ pc[p] = "returned"
        /\ tl[p].call.op = "createBusiness"
        /\ tl[p].tx.business # {}
        /\ tl[p].result = Outcome("Failed to create business")
        /\ tl[p].tx.business \cap business = {}

TypeOK ==
    /\ now \in 0..MaxTime
    /\ nextSessionId \in 1..(MaxSessions + 1)
    /\ \A r \in sessions : r.sessionId < nextSessionId /\ r.userId \in Users
    /\ Cardinality(cookie) <= 1
    /\ Cardinality(lastSeen) <= 1

====
